---- MODULE Spec2Model ----
(***************************************************************************)
(* Model of the deskew path of the image-processing service               *)
(* (src/ImageProcessing/endpoints/rotate.py, rotate_image_endpoint) and   *)
(* of the two places that vet the line-detection parameters               *)
(* (src/ImageProcessing/app.py and src/main-app/utils/validation.py),     *)
(* of the confidence scoring of the OCR service                           *)
(* (src/OCR/utils/confidence.py and the infer methods of src/OCR/models), *)
(* of the utility find_longest_horizontal_line                            *)
(* (src/ImageProcessing/utils/image_processing.py), of the /ocr endpoint  *)
(* and its model registry (src/OCR/app.py) and of the shared-file keys of *)
(* the session (src/main-app/state/session_manager.py).                   *)
(*                                                                         *)
(* Numeric encodings, all exact:                                           *)
(*  - an angle in degrees is carried as the direction [dy, dx] whose      *)
(*    atan2 it is, reduced by the gcd, so two angles are equal exactly    *)
(*    when their records are equal.  Adding or subtracting 180 turns the  *)
(*    direction around, negating the angle mirrors dy.  The angles are    *)
(*    the real-valued ones: the last-bit rounding of a float64 sum        *)
(*    angle +- 180 is not part of the encoding;                            *)
(*  - a comparison |angle| < T is the comparison |dy| < tan(T) * dx with  *)
(*    tan(T) given as a rational that no ratio of small integers lies     *)
(*    next to;                                                             *)
(*  - a length sqrt(dx^2 + dy^2) is carried as dx^2 + dy^2, the square    *)
(*    root being strictly increasing, so max-by-length is unchanged;       *)
(*  - a confidence is an exact rational, and the geometric mean of the     *)
(*    token probabilities a root of a rational with the direction of its   *)
(*    float rounding (see the confidence section).                         *)
(***************************************************************************)
EXTENDS Integers, Sequences, FiniteSets

VARIABLES
    pc,               \* position of rotate_image_endpoint
    contents,         \* the uploaded bytes, by kind
    use_morphology,   \* the use_morphology argument
    img,              \* the working image (None before decoding)
    original_img,     \* the copy kept for the rotation
    edges,            \* the Canny edge map
    lines,            \* the result of cv2.HoughLinesP
    all_lines_debug,  \* per-line diagnostics
    horizontal_lines, \* the lines classified horizontal
    rotation_angle,   \* the angle to rotate by
    line_info,        \* the selection (None when there is none)
    rotated,          \* the warped image
    is_success,       \* the flag returned by cv2.imencode
    response,         \* the value the handler returned
    outcome,          \* how the call ended: "pending", "returned", "raised"
    p_path,           \* which code vetted the detection parameters
    p_params,         \* the parameters as they were supplied
    p_status,         \* "pending", "rejected" or "accepted"
    p_result,         \* the parameters handed on to the line detection
    tok_call,         \* the arguments of calculate_from_logits (None before)
    tok_ret,          \* what calculate_from_logits returned
    heur_call,        \* the arguments of calculate_heuristic
    heur_ret,         \* what calculate_heuristic returned, with its steps
    comb_call,        \* the arguments of combine_confidences
    comb_ret,         \* what combine_confidences returned
    inf_call,         \* the model whose infer ran, and what it generated
    inf_ret,          \* the confidence infer reported
    util_call,        \* the lines find_longest_horizontal_line detected
    util_ret,         \* what find_longest_horizontal_line returned
    models,           \* the OCR server's registry: the names of the loaded models
    model_load_times, \* the names whose load time was recorded
    constructed,      \* per model name, how many times its class was constructed
    ocr_pc,           \* position of ocr_inference
    ocr_req,          \* the request: model_name, file, return_confidence
    ocr_run,          \* the locals of the PDF branch
    ocr_resp,         \* the HTTP response of the request
    session_state,    \* st.session_state: shared_file, last_uploaded_file, the flag
    sess_call         \* the last SessionManager call, its outcome, the state before

rotVars == <<pc, contents, use_morphology, img, original_img, edges, lines,
             all_lines_debug, horizontal_lines, rotation_angle, line_info,
             rotated, is_success, response, outcome>>

parVars == <<p_path, p_params, p_status, p_result>>

confVars == <<tok_call, tok_ret, heur_call, heur_ret, comb_call, comb_ret,
              inf_call, inf_ret>>

utilVars == <<util_call, util_ret>>

ocrVars == <<models, model_load_times, constructed, ocr_pc, ocr_req, ocr_run,
            ocr_resp>>

sessVars == <<session_state, sess_call>>

extVars == <<utilVars, ocrVars, sessVars>>

vars == <<rotVars, parVars, confVars, extVars>>

\* ---------------------------------------------------------------- bounds
MaxX == 3
MaxY == 1
MaxLines == 2
Margin == 1

\* ------------------------------------------------------------- optionals
None == <<>>
Some(x) == <<x>>
IsSome(o) == Len(o) = 1
Get(o) == o[1]

\* ------------------------------------------------------------ arithmetic
Abs(n) == IF n < 0 THEN -n ELSE n

RECURSIVE Gcd(_, _)
Gcd(a, b) == IF b = 0 THEN a ELSE Gcd(b, a % b)

\* ---------------------------------------------------------------- angles
Zero == [dy |-> 0, dx |-> 1]

\* np.degrees(np.arctan2(dy, dx)); atan2(0, 0) is 0
Arctan2Deg(dy, dx) ==
    IF dy = 0 /\ dx = 0 THEN Zero
    ELSE LET g == Gcd(Abs(dy), Abs(dx)) IN [dy |-> dy \div g, dx |-> dx \div g]

\* angle < -90: the third quadrant, axes excluded
LtMinus90(a) == a.dx < 0 /\ a.dy < 0
\* angle > 90: the second quadrant and the negative x axis (180)
GtPlus90(a) == a.dx < 0 /\ a.dy >= 0
\* angle + 180 and angle - 180, for an angle outside [-90, 90]
Turn180(a) == [dy |-> -a.dy, dx |-> -a.dx]
\* -angle, for an angle in [-90, 90]
Neg(a) == [dy |-> -a.dy, dx |-> a.dx]

\* mutant: the branch for angles above 90 is missing
NormalizeAngle_OnlyLower(a) ==
    IF LtMinus90(a) THEN Turn180(a) ELSE a

\* mutant: the branch for angles below -90 is missing
NormalizeAngle_OnlyUpper(a) ==
    IF GtPlus90(a) THEN Turn180(a) ELSE a

NormalizeAngle(a) ==
    IF LtMinus90(a) THEN Turn180(a)
    ELSE IF GtPlus90(a) THEN Turn180(a)
    ELSE a

\* mutant: the angle is left as arctan2 gives it
SegmentAngle_Raw(seg) == Arctan2Deg(-(seg[4] - seg[2]), seg[3] - seg[1])

\* the corrected angle of a segment: y axis flipped, then normalized
SegmentAngle(seg) ==
    LET dy == -(seg[4] - seg[2])
        dx == seg[3] - seg[1]
    IN NormalizeAngle(Arctan2Deg(dy, dx))

\* tan(20 degrees) = 0.36397023..., as Tan20Num / TanDen
Tan20Num == 36397
\* tan(15 degrees) = 0.26794919..., as Tan15Num / TanDen
Tan15Num == 26795
TanDen == 100000

\* abs(angle) < 20
AbsLt20(a) == a.dx > 0 /\ Abs(a.dy) * TanDen < Tan20Num * a.dx
\* abs(abs(angle) - 180) < 20, i.e. abs(angle) > 160
AbsMinus180Lt20(a) == a.dx < 0 /\ Abs(a.dy) * TanDen < Tan20Num * (-a.dx)

\* mutant: the threshold of the utility, 15 degrees
IsHorizontal_Lt15(a) == a.dx > 0 /\ Abs(a.dy) * TanDen < Tan15Num * a.dx

IsHorizontal(a) ==
    IF AbsLt20(a) THEN TRUE
    ELSE IF AbsMinus180Lt20(a) THEN TRUE
    ELSE FALSE

\* --------------------------------------------------------------- lengths
SegmentLength(seg) ==
    (seg[3] - seg[1]) * (seg[3] - seg[1]) + (seg[4] - seg[2]) * (seg[4] - seg[2])

\* max(items, key=lambda x: x['length']): the first item of maximal length
MaxByLength(items) ==
    LET i == CHOOSE k \in 1..Len(items) :
                 /\ \A j \in 1..Len(items) : items[j].length <= items[k].length
                 /\ \A j \in 1..(k - 1) : items[j].length < items[k].length
    IN items[i]

\* ------------------------------------------------------- detector output
\* The segments the detector may report.  The handler uses the coordinates
\* only through x2 - x1 and y2 - y1 and copies them to the result, so the
\* first endpoint is held at (MaxX, MaxY) and the second ranges over the grid
\* around it: every direction with |dx| <= MaxX and |dy| <= MaxY occurs.
Segments == {<<MaxX, MaxY, x2, y2>> : x2 \in 0..(2 * MaxX), y2 \in 0..(2 * MaxY)}

SeqsUpTo(S, n) == UNION {[1..k -> S] : k \in 0..n}

\* cv2.HoughLinesP: None, or an array of segments in detector order
HoughResults == {None} \cup {Some(s) : s \in SeqsUpTo(Segments, MaxLines)}

LineCount(ls) == IF IsSome(ls) THEN Len(Get(ls)) ELSE 0

\* ------------------------------------------------------------ per line
\* one entry of all_lines_debug
DebugEntry(i, seg) ==
    [line_index |-> i - 1, coords |-> seg, length |-> SegmentLength(seg),
     corrected_angle |-> SegmentAngle(seg)]

AllLinesDebug(segs) == [i \in 1..Len(segs) |-> DebugEntry(i, segs[i])]

\* one entry of horizontal_lines
LineEntry(seg) ==
    [coords |-> seg, length |-> SegmentLength(seg), angle |-> SegmentAngle(seg)]

\* mutant: every line is appended, horizontal or not
HorizontalLines_NoFilter(segs) ==
    [i \in 1..Len(segs) |-> LineEntry(segs[i])]

\* the loop over the detected lines: the horizontal ones, in detector order
HorizontalLines(segs) ==
    SelectSeq([i \in 1..Len(segs) |-> LineEntry(segs[i])],
              LAMBDA e : IsHorizontal(e.angle))

\* ------------------------------------------------------------ selection
NonHorizontalWarning == "non-horizontal line used"

\* mutant: the line is rotated by its own angle, the sign is not flipped
HorizontalSelection_NoNegation(hl) ==
    LET longest_line == MaxByLength(hl)
        line_angle == longest_line.angle
    IN [rotation_angle |-> line_angle,
        line_info |-> Some([start |-> <<longest_line.coords[1], longest_line.coords[2]>>,
                            end |-> <<longest_line.coords[3], longest_line.coords[4]>>,
                            length |-> longest_line.length,
                            detected_angle |-> line_angle,
                            rotation_angle |-> line_angle,
                            warning |-> None])]

\* horizontal_lines is not empty: the longest horizontal line
HorizontalSelection(hl) ==
    LET longest_line == MaxByLength(hl)
        line_angle == longest_line.angle
    IN [rotation_angle |-> Neg(line_angle),
        line_info |-> Some([start |-> <<longest_line.coords[1], longest_line.coords[2]>>,
                            end |-> <<longest_line.coords[3], longest_line.coords[4]>>,
                            length |-> longest_line.length,
                            detected_angle |-> line_angle,
                            rotation_angle |-> Neg(line_angle),
                            warning |-> None])]

\* mutant: the first line is taken instead of the longest
FallbackSelection_FirstLine(segs) ==
    LET first_line == [coords |-> segs[1], length |-> SegmentLength(segs[1])]
        angle == SegmentAngle(first_line.coords)
    IN [rotation_angle |-> Neg(angle),
        line_info |-> Some([start |-> <<first_line.coords[1], first_line.coords[2]>>,
                            end |-> <<first_line.coords[3], first_line.coords[4]>>,
                            length |-> first_line.length,
                            detected_angle |-> angle,
                            rotation_angle |-> Neg(angle),
                            warning |-> Some(NonHorizontalWarning)])]

\* no horizontal line: the longest line of all, its angle computed again
FallbackSelection(segs) ==
    LET all_lines == [i \in 1..Len(segs) |->
                         [coords |-> segs[i], length |-> SegmentLength(segs[i])]]
        longest_any_line == MaxByLength(all_lines)
        angle == SegmentAngle(longest_any_line.coords)
    IN [rotation_angle |-> Neg(angle),
        line_info |-> Some([start |-> <<longest_any_line.coords[1], longest_any_line.coords[2]>>,
                            end |-> <<longest_any_line.coords[3], longest_any_line.coords[4]>>,
                            length |-> longest_any_line.length,
                            detected_angle |-> angle,
                            rotation_angle |-> Neg(angle),
                            warning |-> Some(NonHorizontalWarning)])]

\* mutant: the rotation angle starts at a quarter turn
NoSelection_QuarterTurn == [rotation_angle |-> [dy |-> 1, dx |-> 0], line_info |-> None]

\* the values the variables are initialised to before the detection
NoSelection == [rotation_angle |-> Zero, line_info |-> None]

\* mutant: the fallback also runs when a line longer than every horizontal
\* line exists
SelectLine_LongerFallback(segs, hl) ==
    IF hl # <<>> /\ \A i \in 1..Len(segs) : SegmentLength(segs[i]) <= MaxByLength(hl).length
    THEN HorizontalSelection(hl)
    ELSE IF Len(segs) > 0 THEN FallbackSelection(segs)
    ELSE NoSelection

\* the branch on horizontal_lines
SelectLine(segs, hl) ==
    IF hl # <<>> THEN HorizontalSelection(hl)
    ELSE IF Len(segs) > 0 THEN FallbackSelection(segs)
    ELSE NoSelection

\* ---------------------------------------------------------------- images
\* the upload: no bytes, bytes OpenCV cannot decode, or an image
ContentsKinds == {"empty", "bad", "image"}

\* mutant: the check for an empty upload is missing
Decodable_NoEmptyCheck(c) == c # "bad"

\* len(contents) > 0 and cv2.imdecode gives an image
Decodable(c) == c = "image"

\* cv2.imdecode with IMREAD_COLOR: three channels for every image OpenCV can
\* read, so the IMREAD_GRAYSCALE retry decodes nothing the first call did not
Decode(c) ==
    [pixels |-> "upload", channels |-> 3, morph |-> FALSE]

DecodeError(c) ==
    IF c = "empty" THEN "empty file" ELSE "cannot load image"

\* grayscale, then MORPH_CLOSE and MORPH_OPEN with a 3x3 kernel
Morphology(im) == [im EXCEPT !.channels = 1, !.morph = TRUE]

\* cv2.cvtColor(img, COLOR_BGR2GRAY) for a colour image, a copy otherwise
ToGray(im) == [im EXCEPT !.channels = 1]

\* GaussianBlur 5x5 and Canny 50/150 over the grayscale image
EdgeMap(gray) == [edges_of |-> gray]

\* getRotationMatrix2D about the centre and warpAffine, same size
WarpAffine(src, angle) == [src |-> src, angle |-> angle]

\* mutant: the working image is rotated
RotatedImage_Working(working, original, angle) == WarpAffine(working, angle)

\* the image the rotation is applied to
RotatedImage(working, original, angle) == WarpAffine(original, angle)

\* base64 of the PNG encoding
EncodePng(im) == [png_of |-> im]

\* ------------------------------------------------------------- responses
SuccessResponse(rot, angle, info, count, hcount) ==
    [rotated_image_base64 |-> Some(EncodePng(rot)),
     rotation_angle |-> angle,
     line_info |-> info,
     success |-> TRUE,
     error |-> None,
     total_lines_found |-> count,
     horizontal_lines_found |-> hcount]

\* the except block
ErrorResponse(msg) ==
    [rotated_image_base64 |-> None,
     rotation_angle |-> Zero,
     line_info |-> None,
     success |-> FALSE,
     error |-> Some(msg),
     total_lines_found |-> 0,
     horizontal_lines_found |-> 0]

\* ------------------------------------------------------------------ Init
InitRotate ==
    /\ pc = "start"
    /\ contents = "empty"
    /\ use_morphology = FALSE
    /\ img = None
    /\ original_img = None
    /\ edges = None
    /\ lines = None
    /\ all_lines_debug = <<>>
    /\ horizontal_lines = <<>>
    /\ rotation_angle = Zero
    /\ line_info = None
    /\ rotated = None
    /\ is_success = None
    /\ response = None
    /\ outcome = "pending"

InitParams ==
    /\ p_path = "none"
    /\ p_params = [min_line_length |-> [kind |-> "missing", val |-> 0],
                   max_line_gap |-> [kind |-> "missing", val |-> 0]]
    /\ p_status = "pending"
    /\ p_result = None

InitConf ==
    /\ tok_call = None
    /\ tok_ret = None
    /\ heur_call = None
    /\ heur_ret = None
    /\ comb_call = None
    /\ comb_ret = None
    /\ inf_call = None
    /\ inf_ret = None

InitUtil ==
    /\ util_call = None
    /\ util_ret = None

\* valid_models of ocr_inference
ValidModels == {"deepseek-ocr", "deepseek-ocr2", "paddleocr-vl-1.5", "glm-ocr"}

\* the OCR server after start-up: nothing loaded, no request yet
InitOcr ==
    /\ models = {}
    /\ model_load_times = {}
    /\ constructed = [n \in ValidModels |-> 0]
    /\ ocr_pc = "idle"
    /\ ocr_req = None
    /\ ocr_run = None
    /\ ocr_resp = None

\* a key of st.session_state is absent, or present with a value
Absent == None
Present(v) == Some(v)

\* a new Streamlit session: no key is set
InitSession ==
    /\ session_state = [shared_file |-> Absent, last_uploaded_file |-> Absent,
                        session_initialized |-> FALSE]
    /\ sess_call = None

Init ==
    /\ InitRotate
    /\ InitParams
    /\ InitConf
    /\ InitUtil
    /\ InitOcr
    /\ InitSession

\* --------------------------------------------------------------- actions
\* the call: the upload is read, the arguments are bound
Receive ==
    /\ pc = "start"
    /\ \E c \in ContentsKinds, m \in BOOLEAN :
          /\ contents' = c
          /\ use_morphology' = m
    /\ pc' = "read"
    /\ UNCHANGED <<parVars, confVars, extVars>>
    /\ UNCHANGED <<img, original_img, edges, lines, all_lines_debug,
                   horizontal_lines, rotation_angle, line_info, rotated,
                   is_success, response, outcome>>

DecodeOk ==
    /\ pc = "read"
    /\ Decodable(contents)
    /\ img' = Some(Decode(contents))
    /\ pc' = "decoded"
    /\ UNCHANGED <<parVars, confVars, extVars>>
    /\ UNCHANGED <<contents, use_morphology, original_img, edges, lines,
                   all_lines_debug, horizontal_lines, rotation_angle, line_info,
                   rotated, is_success, response, outcome>>

\* ValueError raised by the checks, caught by the except block
DecodeRaise ==
    /\ pc = "read"
    /\ ~Decodable(contents)
    /\ response' = Some(ErrorResponse(DecodeError(contents)))
    /\ outcome' = "returned"
    /\ pc' = "done"
    /\ UNCHANGED <<parVars, confVars, extVars>>
    /\ UNCHANGED <<contents, use_morphology, img, original_img, edges, lines,
                   all_lines_debug, horizontal_lines, rotation_angle, line_info,
                   rotated, is_success>>

\* the variables are initialised, the original is copied, the working image
\* goes through the optional morphology, grayscale, blur and Canny
Prepare ==
    /\ pc = "decoded"
    /\ horizontal_lines' = <<>>
    /\ all_lines_debug' = <<>>
    /\ rotation_angle' = NoSelection.rotation_angle
    /\ line_info' = NoSelection.line_info
    /\ original_img' = img
    /\ img' = IF use_morphology THEN Some(Morphology(Get(img))) ELSE img
    /\ edges' = Some(EdgeMap(ToGray(Get(img'))))
    /\ pc' = "prepared"
    /\ UNCHANGED <<parVars, confVars, extVars>>
    /\ UNCHANGED <<contents, use_morphology, lines, rotated, is_success,
                   response, outcome>>

Hough ==
    /\ pc = "prepared"
    /\ lines' \in HoughResults
    /\ pc' = "detected"
    /\ UNCHANGED <<parVars, confVars, extVars>>
    /\ UNCHANGED <<contents, use_morphology, img, original_img, edges,
                   all_lines_debug, horizontal_lines, rotation_angle, line_info,
                   rotated, is_success, response, outcome>>

\* the loop over the lines and the choice of the line
Analyse ==
    /\ pc = "detected"
    /\ IF IsSome(lines) /\ LineCount(lines) > 0
       THEN LET segs == Get(lines)
                hl == HorizontalLines(segs)
                sel == SelectLine(segs, hl)
            IN /\ all_lines_debug' = AllLinesDebug(segs)
               /\ horizontal_lines' = hl
               /\ rotation_angle' = sel.rotation_angle
               /\ line_info' = sel.line_info
       ELSE UNCHANGED <<all_lines_debug, horizontal_lines, rotation_angle, line_info>>
    /\ pc' = "selected"
    /\ UNCHANGED <<parVars, confVars, extVars>>
    /\ UNCHANGED <<contents, use_morphology, img, original_img, edges, lines,
                   rotated, is_success, response, outcome>>

Rotate ==
    /\ pc = "selected"
    /\ rotated' = Some(RotatedImage(Get(img), Get(original_img), rotation_angle))
    /\ pc' = "rotated"
    /\ UNCHANGED <<parVars, confVars, extVars>>
    /\ UNCHANGED <<contents, use_morphology, img, original_img, edges, lines,
                   all_lines_debug, horizontal_lines, rotation_angle, line_info,
                   is_success, response, outcome>>

EncodeOk ==
    /\ pc = "rotated"
    /\ is_success' = Some(TRUE)
    /\ response' = Some(SuccessResponse(Get(rotated), rotation_angle, line_info,
                                        LineCount(lines), Len(horizontal_lines)))
    /\ outcome' = "returned"
    /\ pc' = "done"
    /\ UNCHANGED <<parVars, confVars, extVars>>
    /\ UNCHANGED <<contents, use_morphology, img, original_img, edges, lines,
                   all_lines_debug, horizontal_lines, rotation_angle, line_info,
                   rotated>>

\* cv2.imencode fails: ValueError, caught by the except block
EncodeRaise ==
    /\ pc = "rotated"
    /\ is_success' = Some(FALSE)
    /\ response' = Some(ErrorResponse("png conversion error"))
    /\ outcome' = "returned"
    /\ pc' = "done"
    /\ UNCHANGED <<parVars, confVars, extVars>>
    /\ UNCHANGED <<contents, use_morphology, img, original_img, edges, lines,
                   all_lines_debug, horizontal_lines, rotation_angle, line_info,
                   rotated>>

Next ==
    \/ Receive
    \/ DecodeOk
    \/ DecodeRaise
    \/ Prepare
    \/ Hough
    \/ Analyse
    \/ Rotate
    \/ EncodeOk
    \/ EncodeRaise

Spec == Init /\ [][Next]_vars

\* the handler up to the choice of the line: the steps that compute the
\* angles, classify the lines and select one
NextDetection ==
    \/ Receive
    \/ DecodeOk
    \/ DecodeRaise
    \/ Prepare
    \/ Hough
    \/ Analyse

SpecDetection == Init /\ [][NextDetection]_vars

\* -------------------------------------------------- detection parameters
MinLineLengthMin == 10
MinLineLengthMax == 500
MaxLineGapMin == 1
MaxLineGapMax == 100
DefaultMinLineLength == 50
DefaultMaxLineGap == 20

\* a supplied value: an integer, something int() cannot convert, or nothing
IntValue(n) == [kind |-> "int", val |-> n]
NotAnInt == [kind |-> "text", val |-> 0]
Missing == [kind |-> "missing", val |-> 0]

Around(c) == (c - Margin)..(c + Margin)

MinLineLengthInputs ==
    {IntValue(n) : n \in Around(MinLineLengthMin) \cup Around(DefaultMinLineLength)
                         \cup Around(MinLineLengthMax)}
    \cup {NotAnInt, Missing}

MaxLineGapInputs ==
    {IntValue(n) : n \in Around(MaxLineGapMin) \cup Around(DefaultMaxLineGap)
                         \cup Around(MaxLineGapMax)}
    \cup {NotAnInt, Missing}

\* Form(default, ge=lo, le=hi) of an int parameter: the default when the field
\* is absent, a validation error for a non-integer or an out-of-range value
FormField(v, lo, hi, default) ==
    IF v.kind = "missing" THEN [ok |-> TRUE, val |-> default]
    ELSE IF v.kind = "text" THEN [ok |-> FALSE, val |-> 0]
    ELSE IF v.val < lo \/ v.val > hi THEN [ok |-> FALSE, val |-> 0]
    ELSE [ok |-> TRUE, val |-> v.val]

\* params.get(key, default), int(), then the clamp; the default when int()
\* raises
ClampField(v, lo, hi, default) ==
    IF v.kind = "missing" THEN default
    ELSE IF v.kind = "text" THEN default
    ELSE IF v.val < lo THEN lo
    ELSE IF v.val > hi THEN hi
    ELSE v.val

\* POST /rotate: the form is validated, then the endpoint is called
RotateImageForm ==
    /\ p_status = "pending"
    /\ \E a \in MinLineLengthInputs, b \in MaxLineGapInputs :
          LET fa == FormField(a, MinLineLengthMin, MinLineLengthMax, DefaultMinLineLength)
              fb == FormField(b, MaxLineGapMin, MaxLineGapMax, DefaultMaxLineGap)
          IN /\ p_params' = [min_line_length |-> a, max_line_gap |-> b]
             /\ IF fa.ok /\ fb.ok
                THEN /\ p_status' = "accepted"
                     /\ p_result' = Some([min_line_length |-> fa.val,
                                          max_line_gap |-> fb.val])
                ELSE /\ p_status' = "rejected"
                     /\ p_result' = None
    /\ p_path' = "form"
    /\ UNCHANGED <<rotVars, confVars, extVars>>

\* validate_line_detection_params, as called by the settings panel
ValidateLineDetectionParams ==
    /\ p_status = "pending"
    /\ \E a \in MinLineLengthInputs, b \in MaxLineGapInputs :
          /\ p_params' = [min_line_length |-> a, max_line_gap |-> b]
          /\ p_result' = Some([min_line_length |->
                                   ClampField(a, MinLineLengthMin, MinLineLengthMax,
                                              DefaultMinLineLength),
                               max_line_gap |->
                                   ClampField(b, MaxLineGapMin, MaxLineGapMax,
                                              DefaultMaxLineGap)])
    /\ p_status' = "accepted"
    /\ p_path' = "validate"
    /\ UNCHANGED <<rotVars, confVars, extVars>>

NextParams ==
    \/ RotateImageForm
    \/ ValidateLineDetectionParams

SpecParams == Init /\ [][NextParams]_vars

\* ============================================================ confidence
\* src/OCR/utils/confidence.py and the infer methods of src/OCR/models.
\*
\* A float is carried as the exact rational it stands for, reduced, so 0.7
\* is 7/10 and a product or a sum of floats is the product or the sum of the
\* rationals: the last-bit rounding of float64 is not part of the encoding.

\* ------------------------------------------------------------- rationals
Rat(n, d) ==
    LET g == Gcd(Abs(n), Abs(d))
        s == IF d < 0 THEN -1 ELSE 1
    IN [num |-> (s * n) \div g, den |-> (s * d) \div g]

RMul(a, b) ==
    LET g1 == Gcd(Abs(a.num), b.den)
        g2 == Gcd(Abs(b.num), a.den)
    IN Rat((a.num \div g1) * (b.num \div g2), (a.den \div g2) * (b.den \div g1))

RAdd(a, b) ==
    LET g == Gcd(a.den, b.den)
    IN Rat(a.num * (b.den \div g) + b.num * (a.den \div g),
           a.den * (b.den \div g))

RSub(a, b) == RAdd(a, Rat(-b.num, b.den))

\* the comparisons multiply across after dividing both denominators by
\* their gcd
RLeq(a, b) ==
    LET g == Gcd(a.den, b.den)
    IN a.num * (b.den \div g) <= b.num * (a.den \div g)

RLt(a, b) == ~RLeq(b, a)
RMax(a, b) == IF RLt(a, b) THEN b ELSE a
RMin(a, b) == IF RLt(b, a) THEN b ELSE a

RZero == Rat(0, 1)
ROne == Rat(1, 1)
RHalf == Rat(1, 2)

\* ------------------------------------------------------------------ text
\* A text is the sequence of its runs: a run is a character and the number of
\* times it is repeated, and two adjacent runs have different characters.
\* The characters are one letter, one space, one line feed and one
\* punctuation mark: the four classes calculate_heuristic tells apart.
MaxRuns == 3

ShortTextLen == 10
LongTextLen == 5000
RepeatsAfterFirst == 4
SmallArea == 50000

Chars == {"letter", "space", "newline", "symbol"}

RunLens == {1, RepeatsAfterFirst, RepeatsAfterFirst + 1, LongTextLen}

Runs == [ch : Chars, n : RunLens]

Texts == {t \in SeqsUpTo(Runs, MaxRuns) :
              \A i \in 1..(Len(t) - 1) : t[i].ch # t[i + 1].ch}

ImageSizes == {<<249, 200>>, <<250, 200>>}

\* str.isspace() and str.isalnum() of one character
IsSpace(ch) == ch \in {"space", "newline"}
IsAlnum(ch) == ch = "letter"

\* what "." of a regular expression matches: anything but a line feed
DotMatches(ch) == ch # "newline"

RECURSIVE TextLen(_)
TextLen(t) == IF t = <<>> THEN 0 ELSE t[1].n + TextLen(Tail(t))

RECURSIVE LStrip(_)
LStrip(t) ==
    IF t # <<>> /\ IsSpace(t[1].ch) THEN LStrip(Tail(t)) ELSE t

RECURSIVE RStrip(_)
RStrip(t) ==
    IF t # <<>> /\ IsSpace(t[Len(t)].ch)
    THEN RStrip(SubSeq(t, 1, Len(t) - 1))
    ELSE t

\* str.strip()
Strip(t) == RStrip(LStrip(t))

\* re.search(r'(.)\1{4,}', text)
RepetitionSearch(t) ==
    \E i \in 1..Len(t) : DotMatches(t[i].ch) /\ t[i].n >= 1 + RepeatsAfterFirst

\* sum(c.isalnum() or c.isspace() for c in text)
RECURSIVE Alphanumeric(_)
Alphanumeric(t) ==
    IF t = <<>> THEN 0
    ELSE (IF IsAlnum(t[1].ch) \/ IsSpace(t[1].ch) THEN t[1].n ELSE 0)
         + Alphanumeric(Tail(t))

\* -------------------------------------------------- calculate_heuristic
\* mutant: a text of whitespace only is not taken as blank
BlankText_OnlyEmpty(text) == text = <<>>

\* "not text or len(text.strip()) == 0"
BlankText(text) == text = <<>> \/ TextLen(Strip(text)) = 0

BlankConfidence == Rat(1, 10)
BaseConfidence == Rat(7, 10)

\* mutant: the two thresholds are inclusive
LengthFactor_Inclusive(text) ==
    IF TextLen(text) <= ShortTextLen THEN Rat(7, 10)
    ELSE IF TextLen(text) >= LongTextLen THEN Rat(9, 10)
    ELSE ROne

\* the length penalty, of the stripped text
LengthFactor(text) ==
    IF TextLen(text) < ShortTextLen THEN Rat(7, 10)
    ELSE IF TextLen(text) > LongTextLen THEN Rat(9, 10)
    ELSE ROne

\* the repetition penalty
RepetitionFactor(text) ==
    IF RepetitionSearch(text) THEN Rat(6, 10) ELSE ROne

\* mutant: whitespace is not counted as a good character
QualityFactor_AlnumOnly(text) ==
    LET total_chars == TextLen(text)
        letters == TextLen(SelectSeq(text, LAMBDA r : IsAlnum(r.ch)))
    IN IF total_chars > 0
       THEN RAdd(RHalf, RMul(Rat(letters, total_chars), RHalf))
       ELSE ROne

\* mutant: the ratio itself is the factor
QualityFactor_RatioOnly(text) ==
    LET total_chars == TextLen(text)
        alphanumeric == Alphanumeric(text)
    IN IF total_chars > 0 THEN Rat(alphanumeric, total_chars) ELSE ROne

\* 0.5 + quality_ratio * 0.5 (total_chars > 0 for a stripped non-blank text)
QualityFactor(text) ==
    LET total_chars == TextLen(text)
        alphanumeric == Alphanumeric(text)
    IN IF total_chars > 0
       THEN RAdd(RHalf, RMul(Rat(alphanumeric, total_chars), RHalf))
       ELSE ROne

\* mutant: an area of exactly 50000 is penalised as well
AreaFactor_Inclusive(image_size) ==
    LET img_area == image_size[1] * image_size[2]
    IN IF img_area <= SmallArea THEN Rat(85, 100) ELSE ROne

\* the small-image penalty
AreaFactor(image_size) ==
    LET img_area == image_size[1] * image_size[2]
    IN IF img_area < SmallArea THEN Rat(85, 100) ELSE ROne

\* max(0.0, min(1.0, confidence))
ClampUnit(c) == RMax(RZero, RMin(ROne, c))

\* the call: the value returned and the successive values of the local
\* variable confidence (none when the text is blank)
CalculateHeuristic(text, image_size) ==
    IF BlankText(text)
    THEN [value |-> BlankConfidence, steps |-> <<>>]
    ELSE LET stripped == Strip(text)
             c0 == BaseConfidence
             c1 == RMul(c0, LengthFactor(stripped))
             c2 == RMul(c1, RepetitionFactor(stripped))
             c3 == RMul(c2, QualityFactor(stripped))
             c4 == RMul(c3, AreaFactor(image_size))
         IN [value |-> ClampUnit(c4), steps |-> <<c0, c1, c2, c3, c4>>]

\* The products above are those of the real numbers.  The floats are not:
\* 0.7 * 0.7 is 0.48999999999999994, below the float nearest to 0.49.  err
\* says where the float result lies with respect to the float nearest to
\* the real value: just below (-1), on it (0) or just above (1).  The
\* literals 0.1 and 0.7 and a product by 1.0 are exact; any other chain of
\* products may round either way.
HeuristicRoundings == {-1, 0, 1}

ExactResult(ret) == ret.steps = <<>> \/ ret.steps[5] = ret.steps[1]

HeuristicFloat(ret, rounding) ==
    [value |-> ret.value, steps |-> ret.steps, err |-> rounding]

HeuristicCall ==
    /\ heur_call = None
    /\ \E text \in Texts, image_size \in ImageSizes :
          LET ret == CalculateHeuristic(text, image_size)
          IN \E rounding \in IF ExactResult(ret) THEN {0}
                              ELSE HeuristicRoundings :
                /\ heur_call' = Some([text |-> text, image_size |-> image_size])
                /\ heur_ret' = Some(HeuristicFloat(ret, rounding))
    /\ UNCHANGED <<rotVars, parVars, extVars>>
    /\ UNCHANGED <<tok_call, tok_ret, comb_call, comb_ret, inf_call, inf_ret>>

NextHeuristic == HeuristicCall

SpecHeuristic == Init /\ [][NextHeuristic]_vars

\* ----------------------------------------------- calculate_from_logits
\* The geometric mean exp(sum(log p) / n) of n probabilities is the n-th root
\* of their product, which is irrational in general, and math.log, the
\* division and math.exp each round to a float64.  A value is therefore
\* carried as q + c * of^(1/n) + err * eps with q, c and of rational, eps a
\* positive quantity smaller than any difference of two such numbers, and
\* err in {-1, 0, 1}: the result of the float evaluation lies just below,
\* on, or just above the real number.  A rational x is x + 0 * 1^(1/1), and
\* a first root is folded into q.
Roundings == {-1, 0, 1}

VRat(x) == [q |-> x, c |-> RZero, n |-> 1, of |-> ROne, err |-> 0]

VRoot(n, of) ==
    IF n = 1 THEN VRat(of)
    ELSE [q |-> RZero, c |-> ROne, n |-> n, of |-> of, err |-> 0]

\* w * v for a rational w > 0
VScale(w, v) ==
    IF v.c = RZero
    THEN [VRat(RMul(w, v.q)) EXCEPT !.err = v.err]
    ELSE [v EXCEPT !.q = RMul(w, v.q), !.c = RMul(w, v.c)]

\* v + x for a rational x
VAddRat(v, x) == [v EXCEPT !.q = RAdd(v.q, x)]

RECURSIVE RPow(_, _)
RPow(x, n) == IF n = 0 THEN ROne ELSE RMul(x, RPow(x, n - 1))

\* of^(1/n) <= y and y <= of^(1/n), for 0 <= of; a root of something at
\* most 1 is at most 1, which settles the comparison with any y >= 1 and
\* keeps the powers small
RootLeq(n, of, y) ==
    IF RLeq(of, ROne) /\ RLeq(ROne, y) THEN TRUE
    ELSE RLeq(RZero, y) /\ RLeq(of, RPow(y, n))

LeqRoot(y, n, of) ==
    IF RLeq(y, RZero) THEN TRUE
    ELSE IF RLeq(of, ROne) /\ RLt(ROne, y) THEN FALSE
    ELSE RLeq(RPow(y, n), of)

\* the real number of v compared with a rational x (c is never negative)
StdLeq(v, x) ==
    IF v.c = RZero THEN RLeq(v.q, x)
    ELSE RootLeq(v.n, v.of, RMul(RSub(x, v.q), Rat(v.c.den, v.c.num)))

StdGeq(v, x) ==
    IF v.c = RZero THEN RLeq(x, v.q)
    ELSE LeqRoot(RMul(RSub(x, v.q), Rat(v.c.den, v.c.num)), v.n, v.of)

\* v <= x and v >= x for a rational x, the rounding included
VLeq(v, x) ==
    IF StdLeq(v, x) /\ StdGeq(v, x) THEN v.err <= 0 ELSE StdLeq(v, x)

VGeq(v, x) ==
    IF StdLeq(v, x) /\ StdGeq(v, x) THEN v.err >= 0 ELSE StdGeq(v, x)

\* bounds of the token traces
MaxIds == 3
MaxSteps == 2

\* the vocabulary has two tokens; scores[i] is carried as the distribution
\* softmax makes of it, the probability of token 0 first
Vocab == {0, 1}

Distributions ==
    {<<Rat(0, 1), Rat(1, 1)>>, <<Rat(1, 100), Rat(99, 100)>>,
     <<Rat(1, 4), Rat(3, 4)>>, <<Rat(9, 10), Rat(1, 10)>>}

IdSequences == SeqsUpTo(Vocab, MaxIds)

ScoreTraces == {None} \cup {Some(s) : s \in SeqsUpTo(Distributions, MaxSteps)}

\* self.min_token_confidence
MinTokenConfidence == Rat(1, 100)

\* the neutral default
NeutralConfidence == RHalf

Min(a, b) == IF a < b THEN a ELSE b

\* mutant: the prompt is not cut off
GeneratedTokens_WholeSequence(generated_ids, input_length) == generated_ids

\* generated_ids[input_length:]
GeneratedTokens(generated_ids, input_length) ==
    SubSeq(generated_ids, input_length + 1, Len(generated_ids))

\* mutant: every token is looked up in the first step
TokenProb_FirstStep(scores, i, token_id) == scores[1][token_id + 1]

\* torch.softmax(scores[i].squeeze(0), dim=-1)[token_id].item(); i counts
\* from 0
TokenProb(scores, i, token_id) == scores[i + 1][token_id + 1]

\* mutant: the probability is not floored
FloorProb_NoFloor(token_prob) == token_prob

\* max(token_prob, self.min_token_confidence)
FloorProb(token_prob) == RMax(token_prob, MinTokenConfidence)

\* the loop: one entry per generated token, until the scores run out
TokenConfidences(generated_tokens, scores) ==
    [i \in 1..Min(Len(generated_tokens), Len(scores)) |->
        FloorProb(TokenProb(scores, i - 1, generated_tokens[i]))]

RECURSIVE Product(_)
Product(ps) == IF ps = <<>> THEN ROne ELSE RMul(ps[1], Product(Tail(ps)))

\* math.exp(sum(math.log(p) for p in token_confidences) / len(...)); the
\* logarithm of 1.0 is 0.0 and exp(0.0) is 1.0, without rounding
GeometricMean(ps, rounding) ==
    LET P == Product(ps)
    IN [VRoot(Len(ps), P) EXCEPT !.err = IF P = ROne THEN 0 ELSE rounding]

NeutralResult == [avg |-> VRat(NeutralConfidence), token_confidences |-> <<>>]

\* the call; raises says that a tensor operation of the loop body raises, which
\* the except clause turns into the neutral default, and rounding is the way
\* the float evaluation of the mean falls
CalculateFromLogits(generated_ids, scores, input_length, raises, rounding) ==
    IF scores = None \/ Len(Get(scores)) = 0
    THEN NeutralResult
    ELSE LET generated_tokens == GeneratedTokens(generated_ids, input_length)
             token_confidences == TokenConfidences(generated_tokens, Get(scores))
         IN IF token_confidences = <<>> THEN NeutralResult
            ELSE IF raises THEN NeutralResult
            ELSE [avg |-> GeometricMean(token_confidences, rounding),
                  token_confidences |-> token_confidences]

\* how the tensor and float operations of one call turn out
Evaluations ==
    {[raises |-> TRUE, rounding |-> 0]}
    \cup {[raises |-> FALSE, rounding |-> r] : r \in Roundings}

LogitsCall ==
    /\ tok_call = None
    /\ \E generated_ids \in IdSequences, scores \in ScoreTraces,
          input_length \in 0..MaxIds, ev \in Evaluations :
          /\ tok_call' = Some([generated_ids |-> generated_ids,
                               scores |-> scores,
                               input_length |-> input_length,
                               raises |-> ev.raises])
          /\ tok_ret' = Some(CalculateFromLogits(generated_ids, scores,
                                                 input_length, ev.raises,
                                                 ev.rounding))
    /\ UNCHANGED <<rotVars, parVars, extVars>>
    /\ UNCHANGED <<heur_call, heur_ret, comb_call, comb_ret, inf_call, inf_ret>>

NextLogits == LogitsCall

SpecLogits == Init /\ [][NextLogits]_vars

\* -------------------------------------------------- combine_confidences
\* mutant: has_token_scores is not looked at
CombineConfidences_IgnoresFlag(token_confidence, heuristic_confidence, has_token_scores) ==
    IF token_confidence # None
    THEN VAddRat(VScale(Rat(7, 10), Get(token_confidence)),
                 RMul(Rat(3, 10), heuristic_confidence))
    ELSE VRat(heuristic_confidence)

\* mutant: the heuristic is weighted 0.7 as well
CombineConfidences_Overweight(token_confidence, heuristic_confidence, has_token_scores) ==
    IF has_token_scores /\ token_confidence # None
    THEN VAddRat(VScale(Rat(7, 10), Get(token_confidence)),
                 RMul(Rat(7, 10), heuristic_confidence))
    ELSE VRat(heuristic_confidence)

\* token_confidence is None or Some(value)
CombineConfidences(token_confidence, heuristic_confidence, has_token_scores) ==
    IF has_token_scores /\ token_confidence # None
    THEN VAddRat(VScale(Rat(7, 10), Get(token_confidence)),
                 RMul(Rat(3, 10), heuristic_confidence))
    ELSE VRat(heuristic_confidence)

\* the confidences the function is called with: the tenths of [0, 1]
Tenths == {Rat(i, 10) : i \in 0..10}

CombineCall ==
    /\ comb_call = None
    /\ inf_call = None
    /\ \E token_confidence \in {None} \cup {Some(VRat(t)) : t \in Tenths},
          heuristic_confidence \in Tenths, has_token_scores \in BOOLEAN :
          /\ comb_call' = Some([token_confidence |-> token_confidence,
                                heuristic_confidence |-> heuristic_confidence,
                                has_token_scores |-> has_token_scores])
          /\ comb_ret' = Some(CombineConfidences(token_confidence,
                                                 heuristic_confidence,
                                                 has_token_scores))
    /\ UNCHANGED <<rotVars, parVars, extVars>>
    /\ UNCHANGED <<tok_call, tok_ret, heur_call, heur_ret, inf_call, inf_ret>>

\* ----------------------------------------------------------------- infer
\* The models: DeepSeek-OCR and DeepSeek-OCR-2 share one infer, GLM-OCR guards
\* the scoring by "scores is not None", PaddleOCR-VL uses the heuristic only.
Models == {"deepseek", "glm", "paddle"}

\* the texts a generation decodes to: the empty one, those of one short run,
\* and a clean line of two words
CleanText ==
    <<[ch |-> "letter", n |-> RepeatsAfterFirst], [ch |-> "space", n |-> 2],
      [ch |-> "letter", n |-> RepeatsAfterFirst]>>

InferTexts ==
    {<<[ch |-> c, n |-> k]>> : c \in Chars, k \in RunLens \ {LongTextLen}}
    \cup {<<>>, CleanText}

\* what model.generate returns with output_scores=True: the new tokens and one
\* distribution per new token; the prompt is one token long
Generations ==
    UNION {[new : [1..k -> Vocab], scores : [1..k -> Distributions]] :
               k \in 0..MaxSteps}

PromptIds == <<0>>

NoConfidence(model, text, image_size, return_confidence) ==
    [model |-> model, raised |-> FALSE, return_confidence |-> return_confidence,
     result |-> text, image_size |-> image_size, scores |-> None,
     scoring_raised |-> FALSE, token_conf |-> None, heuristic_conf |-> None,
     confidence |-> None]

\* the confidence part of DeepSeekOCRModel.infer and DeepSeekOCR2Model.infer
DeepSeekConfidence(text, image_size, gen, raises, rounding) ==
    LET generated_ids == PromptIds \o gen.new
        scores == Some(gen.scores)
        token == CalculateFromLogits(generated_ids, scores, Len(PromptIds),
                                     raises, rounding)
        token_conf == token.avg
        heuristic_conf == CalculateHeuristic(text, image_size).value
    IN [model |-> "deepseek", raised |-> FALSE, return_confidence |-> TRUE,
        result |-> text, image_size |-> image_size, scores |-> scores,
        scoring_raised |-> raises /\ Len(gen.new) > 0,
        token_conf |-> Some(token_conf),
        heuristic_conf |-> Some(heuristic_conf),
        confidence |-> Some(CombineConfidences(Some(token_conf), heuristic_conf,
                                               scores # None))]

\* the confidence part of GLMOCRModel.infer: the text is stripped first
GlmConfidence(text, image_size, gen, raises, rounding) ==
    LET generated_ids == PromptIds \o gen.new
        scores == Some(gen.scores)
        result == Strip(text)
        token == CalculateFromLogits(generated_ids, scores, Len(PromptIds),
                                     raises, rounding)
        token_conf == token.avg
        heuristic_conf == CalculateHeuristic(result, image_size).value
    IN IF scores # None
       THEN [model |-> "glm", raised |-> FALSE, return_confidence |-> TRUE,
             result |-> result, image_size |-> image_size, scores |-> scores,
             scoring_raised |-> raises /\ Len(gen.new) > 0,
             token_conf |-> Some(token_conf),
             heuristic_conf |-> Some(heuristic_conf),
             confidence |-> Some(CombineConfidences(Some(token_conf),
                                                    heuristic_conf, TRUE))]
       ELSE NoConfidence("glm", result, image_size, TRUE)

\* the confidence part of PaddleOCRVLModel.infer
PaddleConfidence(text, image_size) ==
    LET heuristic_conf == CalculateHeuristic(text, image_size).value
    IN [NoConfidence("paddle", text, image_size, TRUE) EXCEPT
            !.heuristic_conf = Some(heuristic_conf),
            !.confidence = Some(VRat(heuristic_conf))]

InferStart == comb_call = None /\ inf_call = None

InferFrame ==
    /\ UNCHANGED <<rotVars, parVars, extVars>>
    /\ UNCHANGED <<tok_call, tok_ret, heur_call, heur_ret, comb_call, comb_ret>>

\* infer(image, prompt, return_confidence=False) of any model
InferPlain ==
    /\ InferStart
    /\ \E model \in Models, text \in InferTexts, image_size \in ImageSizes :
          /\ inf_call' = Some([model |-> model, return_confidence |-> FALSE])
          /\ inf_ret' = Some(NoConfidence(model,
                                          IF model = "glm" THEN Strip(text)
                                          ELSE text,
                                          image_size, FALSE))
    /\ InferFrame

DeepSeekInfer ==
    /\ InferStart
    /\ \E text \in InferTexts, image_size \in ImageSizes, gen \in Generations,
          ev \in Evaluations :
          /\ inf_call' = Some([model |-> "deepseek", return_confidence |-> TRUE])
          /\ inf_ret' = Some(DeepSeekConfidence(text, image_size, gen,
                                                ev.raises, ev.rounding))
    /\ InferFrame

GlmInfer ==
    /\ InferStart
    /\ \E text \in InferTexts, image_size \in ImageSizes, gen \in Generations,
          ev \in Evaluations :
          /\ inf_call' = Some([model |-> "glm", return_confidence |-> TRUE])
          /\ inf_ret' = Some(GlmConfidence(text, image_size, gen, ev.raises,
                                           ev.rounding))
    /\ InferFrame

PaddleInfer ==
    /\ InferStart
    /\ \E text \in InferTexts, image_size \in ImageSizes :
          /\ inf_call' = Some([model |-> "paddle", return_confidence |-> TRUE])
          /\ inf_ret' = Some(PaddleConfidence(text, image_size))
    /\ InferFrame

\* the processor, the generation or the decoding raises: infer logs and re-raises
InferRaise ==
    /\ InferStart
    /\ \E model \in Models, return_confidence \in BOOLEAN :
          /\ inf_call' = Some([model |-> model,
                               return_confidence |-> return_confidence])
          /\ inf_ret' = Some([NoConfidence(model, <<>>, <<0, 0>>,
                                           return_confidence)
                                 EXCEPT !.raised = TRUE])
    /\ InferFrame

NextConfidence ==
    \/ CombineCall
    \/ InferPlain
    \/ DeepSeekInfer
    \/ GlmInfer
    \/ PaddleInfer
    \/ InferRaise

SpecConfidence == Init /\ [][NextConfidence]_vars

\* ============================================ find_longest_horizontal_line
\* src/ImageProcessing/utils/image_processing.py: the utility that decodes an
\* image, detects its lines and returns the longest horizontal one.
\*
\* The segments its detector may report: as Segments, over a grid wide enough
\* for a segment tilted by less than 15 degrees (1 in 4 is 14.04 degrees).
UtilMaxX == 4

UtilSegments ==
    {<<UtilMaxX, MaxY, x2, y2>> : x2 \in 0..(2 * UtilMaxX), y2 \in 0..(2 * MaxY)}

UtilHoughResults ==
    {None} \cup {Some(s) : s \in SeqsUpTo(UtilSegments, MaxLines)}

\* np.degrees(np.arctan2(y2 - y1, x2 - x1)), normalized: the y axis is the
\* image's, pointing down
UtilSegmentAngle(seg) ==
    NormalizeAngle(Arctan2Deg(seg[4] - seg[2], seg[3] - seg[1]))

\* abs(angle) < 15
AbsLt15(a) == a.dx > 0 /\ Abs(a.dy) * TanDen < Tan15Num * a.dx
\* abs(abs(angle) - 180) < 15, i.e. abs(angle) > 165
AbsMinus180Lt15(a) == a.dx < 0 /\ Abs(a.dy) * TanDen < Tan15Num * (-a.dx)

UtilIsHorizontal(a) == AbsLt15(a) \/ AbsMinus180Lt15(a)

\* the loop over the detected lines
UtilHorizontalLines(segs) ==
    SelectSeq([i \in 1..Len(segs) |->
                  [coords |-> segs[i], length |-> SegmentLength(segs[i]),
                   angle |-> UtilSegmentAngle(segs[i])]],
              LAMBDA e : UtilIsHorizontal(e.angle))

\* the value returned for a decoded image whose detection gave ls
LongestHorizontalLine(ls) ==
    IF ls = None \/ Len(Get(ls)) = 0 THEN None
    ELSE LET horizontal == UtilHorizontalLines(Get(ls))
         IN IF horizontal = <<>> THEN None
            ELSE LET longest_line == MaxByLength(horizontal)
                 IN Some([start |-> <<longest_line.coords[1], longest_line.coords[2]>>,
                          end |-> <<longest_line.coords[3], longest_line.coords[4]>>,
                          length |-> longest_line.length,
                          angle |-> longest_line.angle])

\* the call: an image that cannot be decoded raises ValueError, any other
\* gets its lines detected and the longest horizontal one returned
FindLongestHorizontalLine ==
    /\ util_call = None
    /\ \E c \in ContentsKinds, ls \in UtilHoughResults :
          IF Decodable(c)
          THEN /\ util_call' = Some([image_bytes |-> c, lines |-> ls])
               /\ util_ret' = Some([outcome |-> "returned",
                                    value |-> LongestHorizontalLine(ls)])
          ELSE /\ util_call' = Some([image_bytes |-> c, lines |-> None])
               /\ util_ret' = Some([outcome |-> "raised", value |-> None])
    /\ UNCHANGED <<rotVars, parVars, confVars, ocrVars, sessVars>>

NextUtility == FindLongestHorizontalLine

SpecUtility == Init /\ [][NextUtility]_vars

\* ============================================================== OCR server
\* src/OCR/app.py: the model registry, process_single_image_with_confidence
\* and the /ocr endpoint; src/OCR/utils/pdf_handler.py for the pages.
MaxPages == 2

\* the model_name of a request: a valid name or any other string
ModelNames == ValidModels \cup {"other"}

\* the upload: image.read() raises, the extension is not a supported one, a
\* PDF, or an image; the bytes can be opened or not
UploadKinds == {"unreadable", "unsupported", "pdf", "image"}

\* PDFHandler.pdf_bytes_to_images: the pages that were rendered, with their
\* numbers; a page whose rendering raised is skipped
RenderedPages ==
    {s \in SeqsUpTo(1..MaxPages, MaxPages) :
        \A i \in 1..(Len(s) - 1) : s[i] < s[i + 1]}

\* what opening gives: ValueError of the PDF handler or an exception
\* of Image.open ("bad"), or the pages; an image is a document of one page
Uploads ==
    {[kind |-> k, opens |-> FALSE, pages |-> <<>>] : k \in UploadKinds}
    \cup {[kind |-> "pdf", opens |-> TRUE, pages |-> s] : s \in RenderedPages}
    \cup {[kind |-> "image", opens |-> TRUE, pages |-> <<1>>]}

\* the confidences infer may report
InferConfidences == {Rat(1, 20), Rat(9, 10)}

\* the texts infer may return: nothing, or some text
InferResults == {"", "text"}

FailedPageConfidence == Rat(1, 10)
MissingPageConfidence == Rat(1, 2)

\* what happens inside process_single_image_with_confidence: the model's
\* constructor raises, infer raises, or infer returns
ProcessEvents(return_confidence) ==
    {[load_raises |-> TRUE, infer_raises |-> FALSE, text |-> "", confidence |-> None],
     [load_raises |-> FALSE, infer_raises |-> TRUE, text |-> "", confidence |-> None]}
    \cup {[load_raises |-> FALSE, infer_raises |-> FALSE, text |-> t, confidence |-> c] :
             t \in InferResults,
             c \in {None} \cup (IF return_confidence
                                THEN {Some(x) : x \in InferConfidences}
                                ELSE {})}

\* mutant: the model is loaded on every call
NeedsLoad_Always(model_name, registry) == TRUE

\* "if model_name not in models"
NeedsLoad(model_name, registry) == model_name \notin registry

\* process_single_image_with_confidence: the registry after the call, and
\* the pair returned or the exception raised.  A name that is none of the
\* four constructs nothing, gets its load time recorded, and the lookup for
\* infer raises KeyError.
ProcessSingleImageWithConfidence(model_name, ev) ==
    LET loading == NeedsLoad(model_name, models)
        constructs == loading /\ model_name \in ValidModels /\ ~ev.load_raises
        load_failed == loading /\ model_name \in ValidModels /\ ev.load_raises
        loaded == IF constructs THEN models \cup {model_name} ELSE models
        reg == [models |-> loaded,
                model_load_times |-> IF loading /\ ~load_failed
                                     THEN model_load_times \cup {model_name}
                                     ELSE model_load_times,
                constructed |-> IF constructs
                                THEN [constructed EXCEPT ![model_name] = @ + 1]
                                ELSE constructed]
    IN IF load_failed
       THEN [reg |-> reg, raised |-> Some("RuntimeError"), text |-> None,
             confidence |-> None]
       ELSE IF model_name \notin loaded
       THEN [reg |-> reg, raised |-> Some("KeyError"), text |-> None,
             confidence |-> None]
       ELSE IF ev.infer_raises
       THEN [reg |-> reg, raised |-> Some("InferenceError"), text |-> None,
             confidence |-> None]
       ELSE [reg |-> reg, raised |-> None, text |-> Some(ev.text),
             confidence |-> ev.confidence]

\* the events that can happen for the model: the constructor runs, and can
\* raise, only when the model has to be loaded
EventsFor(model_name, return_confidence) ==
    {ev \in ProcessEvents(return_confidence) :
        ev.load_raises => (NeedsLoad(model_name, models) /\ model_name \in ValidModels)}

\* mutant: a failed page counts as a page without confidence
PageConfidence_FailedAsMissing(ret) ==
    IF ret.raised = None /\ ret.confidence # None THEN Get(ret.confidence)
    ELSE MissingPageConfidence

\* what a page appends to page_confidences: 0.1 in the except branch,
\* "confidence if confidence is not None else 0.5" otherwise
PageConfidence(ret) ==
    IF ret.raised # None THEN FailedPageConfidence
    ELSE IF ret.confidence # None THEN Get(ret.confidence)
    ELSE MissingPageConfidence

\* ----------------------------------------------------------- responses
\* raise HTTPException(status_code, detail): cause names the failure
HttpError(status_code, cause) ==
    [status_code |-> status_code, cause |-> cause, body |-> None]

\* the outer "except Exception": whatever was raised inside the processing,
\* an HTTPException included, is answered with status 500
ProcessingError(cause) == HttpError(500, cause)

\* min(page_confidences)
RECURSIVE MinConfidence(_)
MinConfidence(cs) ==
    IF Len(cs) = 1 THEN cs[1]
    ELSE RMin(cs[1], MinConfidence(Tail(cs)))

\* r.get('text'): a text that is neither None nor empty
HasText(r) == r.text # None /\ Get(r.text) # ""

\* the numbers of the pages joined into combined_text
CombinedText(results) ==
    LET kept == SelectSeq(results, HasText)
    IN [i \in 1..Len(kept) |-> kept[i].page_number]

PdfResponse(req, run) ==
    [status_code |-> 200, cause |-> "none",
     body |-> Some([model |-> req.model_name,
                    file_type |-> "pdf",
                    total_pages |-> run.total_pages,
                    processed_pages |-> Len(SelectSeq(run.results, HasText)),
                    pages |-> run.results,
                    combined_text |-> CombinedText(run.results),
                    confidence |-> IF run.page_confidences # <<>>
                                   THEN Some(MinConfidence(run.page_confidences))
                                   ELSE None,
                    confidence_per_page |-> run.page_confidences,
                    status |-> "success"])]

ImageResponse(req, text, confidence) ==
    [status_code |-> 200, cause |-> "none",
     body |-> Some([model |-> req.model_name,
                    file_type |-> "image",
                    text |-> text,
                    confidence |-> confidence,
                    status |-> "success"])]

\* -------------------------------------------------------------- actions
OcrFrame == UNCHANGED <<rotVars, parVars, confVars, utilVars, sessVars>>

\* a request arrives: the model name is checked, the upload is read and its
\* type is taken from the extension
OcrReceive ==
    /\ ocr_pc \in {"idle", "done"}
    /\ \E model_name \in ModelNames, upload \in Uploads, return_confidence \in BOOLEAN :
          LET req == [model_name |-> model_name, upload |-> upload,
                      return_confidence |-> return_confidence,
                      loaded_before |-> models]
          IN /\ ocr_req' = Some(req)
             /\ IF model_name \notin ValidModels
                THEN /\ ocr_resp' = Some(HttpError(400, "invalid_model"))
                     /\ ocr_pc' = "done"
                ELSE IF upload.kind = "unreadable"
                THEN /\ ocr_resp' = Some(HttpError(400, "read_error"))
                     /\ ocr_pc' = "done"
                ELSE IF upload.kind = "unsupported"
                THEN /\ ocr_resp' = Some(HttpError(400, "unsupported_format"))
                     /\ ocr_pc' = "done"
                ELSE /\ ocr_resp' = None
                     /\ ocr_pc' = "process"
    /\ ocr_run' = None
    /\ UNCHANGED <<models, model_load_times, constructed>>
    /\ OcrFrame

\* the PDF is converted: ValueError of the handler and an empty list of pages
\* raise HTTPException(400) inside the outer try
OcrConvertPdf ==
    /\ ocr_pc = "process"
    /\ Get(ocr_req).upload.kind = "pdf"
    /\ LET upload == Get(ocr_req).upload
       IN IF ~upload.opens
          THEN /\ ocr_resp' = Some(ProcessingError("pdf_unreadable"))
               /\ ocr_pc' = "done"
               /\ ocr_run' = ocr_run
          ELSE IF upload.pages = <<>>
          THEN /\ ocr_resp' = Some(ProcessingError("pdf_no_pages"))
               /\ ocr_pc' = "done"
               /\ ocr_run' = ocr_run
          ELSE /\ ocr_run' = Some([pages |-> upload.pages,
                                   total_pages |-> Len(upload.pages),
                                   results |-> <<>>,
                                   page_confidences |-> <<>>])
               /\ ocr_pc' = "pages"
               /\ ocr_resp' = ocr_resp
    /\ UNCHANGED <<models, model_load_times, constructed, ocr_req>>
    /\ OcrFrame

\* one turn of the loop over the pages
OcrPage ==
    /\ ocr_pc = "pages"
    /\ Len(Get(ocr_run).results) < Len(Get(ocr_run).pages)
    /\ \E ev \in EventsFor(Get(ocr_req).model_name, Get(ocr_req).return_confidence) :
          LET run == Get(ocr_run)
              page_num == run.pages[Len(run.results) + 1]
              ret == ProcessSingleImageWithConfidence(Get(ocr_req).model_name, ev)
              entry == IF ret.raised = None
                       THEN [page_number |-> page_num, error |-> None,
                             text |-> ret.text, confidence |-> ret.confidence]
                       ELSE [page_number |-> page_num, error |-> ret.raised,
                             text |-> None, confidence |-> None]
              page_confidence == PageConfidence(ret)
          IN /\ models' = ret.reg.models
             /\ model_load_times' = ret.reg.model_load_times
             /\ constructed' = ret.reg.constructed
             /\ ocr_run' = Some([run EXCEPT
                                    !.results = Append(@, entry),
                                    !.page_confidences = Append(@, page_confidence)])
    /\ UNCHANGED <<ocr_pc, ocr_req, ocr_resp>>
    /\ OcrFrame

\* after the last page: the document's response
OcrPdfRespond ==
    /\ ocr_pc = "pages"
    /\ Len(Get(ocr_run).results) = Len(Get(ocr_run).pages)
    /\ ocr_resp' = Some(PdfResponse(Get(ocr_req), Get(ocr_run)))
    /\ ocr_pc' = "done"
    /\ UNCHANGED <<models, model_load_times, constructed, ocr_req, ocr_run>>
    /\ OcrFrame

\* a single image: opened, then processed; HTTPException(400) for an image
\* that cannot be opened and any exception of the processing are raised
\* inside the outer try
OcrImage ==
    /\ ocr_pc = "process"
    /\ Get(ocr_req).upload.kind = "image"
    /\ IF ~Get(ocr_req).upload.opens
       THEN /\ ocr_resp' = Some(ProcessingError("image_unreadable"))
            /\ UNCHANGED <<models, model_load_times, constructed>>
       ELSE \E ev \in EventsFor(Get(ocr_req).model_name, Get(ocr_req).return_confidence) :
               LET ret == ProcessSingleImageWithConfidence(Get(ocr_req).model_name, ev)
               IN /\ models' = ret.reg.models
                  /\ model_load_times' = ret.reg.model_load_times
                  /\ constructed' = ret.reg.constructed
                  /\ ocr_resp' = IF ret.raised # None
                                 THEN Some(ProcessingError(Get(ret.raised)))
                                 ELSE Some(ImageResponse(Get(ocr_req), Get(ret.text),
                                                         ret.confidence))
    /\ ocr_pc' = "done"
    /\ UNCHANGED <<ocr_req, ocr_run>>
    /\ OcrFrame

NextOcr ==
    \/ OcrReceive
    \/ OcrConvertPdf
    \/ OcrPage
    \/ OcrPdfRespond
    \/ OcrImage

SpecOcr == Init /\ [][NextOcr]_vars

\* ========================================================= SessionManager
\* src/main-app/state/session_manager.py: the keys shared_file and
\* last_uploaded_file of st.session_state.
\*
\* The file_info dictionaries handed to set_shared_file: a file has a name
\* and its bytes, and a dictionary can lack the key 'name'.
FileNames == {"a.pdf", "b.png"}

FileBytes == {"v1", "v2"}

FileInfos ==
    {[name |-> Some(n), bytes |-> b] : n \in FileNames, b \in FileBytes}
    \cup {[name |-> None, bytes |-> b] : b \in FileBytes}

SessionFrame == UNCHANGED <<rotVars, parVars, confVars, utilVars, ocrVars>>

Called(op, raised) ==
    Some([op |-> op, raised |-> raised, before |-> session_state])

\* initialize_session: once per session, the keys that are absent get None
InitializeSession ==
    /\ ~session_state.session_initialized
    /\ session_state' =
           [shared_file |-> IF session_state.shared_file = Absent
                            THEN Present(None)
                            ELSE session_state.shared_file,
            last_uploaded_file |-> IF session_state.last_uploaded_file = Absent
                                   THEN Present(None)
                                   ELSE session_state.last_uploaded_file,
            session_initialized |-> TRUE]
    /\ sess_call' = Called("initialize_session", FALSE)
    /\ SessionFrame

\* set_shared_file(file_info): shared_file is assigned first, then
\* file_info["name"] is read; the KeyError of a dictionary without 'name' is
\* raised again as ValueError, after the first assignment
SetSharedFile ==
    /\ \E file_info \in FileInfos :
          IF file_info.name # None
          THEN /\ session_state' =
                      [session_state EXCEPT
                          !.shared_file = Present(Some(file_info)),
                          !.last_uploaded_file = Present(file_info.name)]
               /\ sess_call' = Called("set_shared_file", FALSE)
          ELSE /\ session_state' =
                      [session_state EXCEPT
                          !.shared_file = Present(Some(file_info))]
               /\ sess_call' = Called("set_shared_file", TRUE)
    /\ SessionFrame

\* clear_shared_file: both keys are deleted when present
ClearSharedFile ==
    /\ session_state' =
           [session_state EXCEPT !.shared_file = Absent,
                                 !.last_uploaded_file = Absent]
    /\ sess_call' = Called("clear_shared_file", FALSE)
    /\ SessionFrame

NextSession ==
    \/ InitializeSession
    \/ SetSharedFile
    \/ ClearSharedFile

SpecSession == Init /\ [][NextSession]_vars

\* ================================================================ claims
\* the lines have been analysed and a line has or has not been chosen
Selected == pc \in {"selected", "rotated", "done"} /\ IsSome(lines)

\* C1: in /rotate, whenever at least one detected segment is classified
\* horizontal, the chosen line is one of the horizontal segments and no
\* horizontal segment is longer than it, whatever longer non-horizontal
\* segments the detection holds.
C1_LongestHorizontalChosen ==
    Selected =>
        LET segs == Get(lines)
            H == {i \in 1..Len(segs) : IsHorizontal(SegmentAngle(segs[i]))}
        IN H # {} =>
               /\ IsSome(line_info)
               /\ \E i \in H :
                     /\ Get(line_info).start = <<segs[i][1], segs[i][2]>>
                     /\ Get(line_info).end = <<segs[i][3], segs[i][4]>>
                     /\ Get(line_info).length = SegmentLength(segs[i])
               /\ \A j \in H : SegmentLength(segs[j]) <= Get(line_info).length

\* a horizontal line was chosen although a strictly longer non-horizontal
\* segment and a second, shorter horizontal segment were possible
C1_Witness ==
    /\ Selected
    /\ Len(Get(lines)) = 2
    /\ IsSome(line_info)
    /\ Get(line_info).warning = None
    /\ \E i, j \in 1..2 :
          /\ IsHorizontal(SegmentAngle(Get(lines)[i]))
          /\ ~IsHorizontal(SegmentAngle(Get(lines)[j]))
          /\ SegmentLength(Get(lines)[j]) > SegmentLength(Get(lines)[i])
          /\ Get(line_info).length = SegmentLength(Get(lines)[i])

\* C2: if the chosen line carries the 'non-horizontal line used' warning
\* (used_fallback), no segment of the detected set was classified horizontal;
\* this holds of the selection and of the line_info the caller receives.
C2_FallbackOnlyWithoutHorizontal ==
    /\ (Selected /\ IsSome(line_info) /\ IsSome(Get(line_info).warning)) =>
           /\ horizontal_lines = <<>>
           /\ \A i \in 1..Len(Get(lines)) : ~IsHorizontal(SegmentAngle(Get(lines)[i]))
    /\ (pc = "done" /\ IsSome(Get(response).line_info)
            /\ IsSome(Get(Get(response).line_info).warning)) =>
           /\ Get(response).horizontal_lines_found = 0
           /\ \A i \in 1..Len(Get(lines)) : ~IsHorizontal(SegmentAngle(Get(lines)[i]))

\* a response whose line_info carries the warning
C2_Witness ==
    /\ pc = "done"
    /\ IsSome(Get(response).line_info)
    /\ Get(Get(response).line_info).warning = Some(NonHorizontalWarning)
    /\ Len(Get(lines)) = 2

\* C3: when the detected list is not empty and holds no horizontal segment,
\* the chosen line is a segment of maximal length over all segments, it is
\* marked as a fallback, and rotation_angle is the negation of that segment's
\* normalized angle.
C3_FallbackLongestOverall ==
    Selected =>
        LET segs == Get(lines)
        IN (Len(segs) > 0 /\ \A i \in 1..Len(segs) : ~IsHorizontal(SegmentAngle(segs[i]))) =>
               /\ IsSome(line_info)
               /\ Get(line_info).warning = Some(NonHorizontalWarning)
               /\ \E i \in 1..Len(segs) :
                     /\ Get(line_info).start = <<segs[i][1], segs[i][2]>>
                     /\ Get(line_info).end = <<segs[i][3], segs[i][4]>>
                     /\ Get(line_info).length = SegmentLength(segs[i])
                     /\ \A j \in 1..Len(segs) : SegmentLength(segs[j]) <= SegmentLength(segs[i])
                     /\ rotation_angle.dx = SegmentAngle(segs[i]).dx
                     /\ rotation_angle.dy = -SegmentAngle(segs[i]).dy

\* two non-horizontal lines, the second strictly longer, the second chosen
C3_Witness ==
    /\ Selected
    /\ Len(Get(lines)) = 2
    /\ horizontal_lines = <<>>
    /\ SegmentLength(Get(lines)[2]) > SegmentLength(Get(lines)[1])
    /\ IsSome(line_info)
    /\ Get(line_info).length = SegmentLength(Get(lines)[2])
    /\ rotation_angle.dy # 0

C5_RotationNegatesDetectedAngle ==
    /\ (Selected /\ IsSome(line_info)) =>
           /\ rotation_angle = Get(line_info).rotation_angle
           /\ Get(line_info).rotation_angle.dx = Get(line_info).detected_angle.dx
           /\ Get(line_info).rotation_angle.dy = -Get(line_info).detected_angle.dy
    /\ (pc = "done" /\ IsSome(Get(response).line_info)) =>
           LET li == Get(Get(response).line_info)
           IN /\ Get(response).rotation_angle = li.rotation_angle
              /\ li.rotation_angle.dx = li.detected_angle.dx
              /\ li.rotation_angle.dy = -li.detected_angle.dy

\* a response with a selected line that is tilted
C5_Witness ==
    /\ pc = "done"
    /\ IsSome(Get(response).line_info)
    /\ Get(Get(response).line_info).detected_angle.dy > 0
    /\ Get(response).rotation_angle.dy < 0

\* the angles the handler computed for segments with two distinct endpoints
ComputedAngles ==
    {all_lines_debug[i].corrected_angle :
        i \in {k \in 1..Len(all_lines_debug) :
                  LET c == all_lines_debug[k].coords
                  IN c[1] # c[3] \/ c[2] # c[4]}}
    \cup (IF IsSome(line_info) /\ Get(line_info).length > 0
          THEN {Get(line_info).detected_angle}
          ELSE {})

\* C6: the normalized angle of a segment with distinct endpoints lies in
\* (-90, 90]; -90 is never produced.
C6_Original ==
    \A a \in ComputedAngles : a.dx > 0 \/ (a.dx = 0 /\ a.dy > 0)

\* C6, amended: the normalized angle lies in the closed interval [-90, 90];
\* -90 is produced, for the segments with x1 = x2 and y2 > y1.
C6_AngleInClosedRange ==
    /\ \A a \in ComputedAngles : a.dx > 0 \/ (a.dx = 0 /\ a.dy # 0)
    /\ \A i \in 1..Len(all_lines_debug) :
          LET c == all_lines_debug[i].coords
              a == all_lines_debug[i].corrected_angle
          IN (a.dx = 0 /\ a.dy < 0) <=> (c[1] = c[3] /\ c[4] > c[2])

\* a detection with a segment reported right to left, which the normalization
\* turned around, and a segment whose angle is exactly -90
C6_Witness ==
    /\ Len(all_lines_debug) = 2
    /\ \E i, j \in 1..2 :
          /\ all_lines_debug[i].coords[3] < all_lines_debug[i].coords[1]
          /\ all_lines_debug[i].coords[4] # all_lines_debug[i].coords[2]
          /\ all_lines_debug[j].corrected_angle = [dy |-> -1, dx |-> 0]

\* C7: for both values of use_morphology the image that is rotated and
\* returned is the original decoded image; the morphology result only feeds
\* the edge and line detection.
C7_RotatesOriginalImage ==
    /\ IsSome(rotated) =>
           /\ Get(rotated).src = [pixels |-> "upload",
                                  channels |-> 3,
                                  morph |-> FALSE]
           /\ Get(rotated).angle = rotation_angle
           /\ Get(edges).edges_of.morph = use_morphology
    /\ (pc = "done" /\ Get(response).success) =>
           Get(response).rotated_image_base64 = Some([png_of |-> Get(rotated)])

\* a successful response with use_morphology set: detection ran on the
\* cleaned image
C7_Witness ==
    /\ pc = "done"
    /\ use_morphology
    /\ Get(response).success
    /\ Get(img).morph
    /\ IsSome(Get(response).line_info)

\* C8: if the input is empty or cannot be decoded, no edge detection, line
\* selection or rotation is executed, and the outcome carries no rotated image
\* and no line selection.
C8_NoWorkOnUnreadableInput ==
    (pc # "start" /\ contents \in {"empty", "bad"}) =>
        /\ pc \in {"read", "done"}
        /\ img = None
        /\ original_img = None
        /\ edges = None
        /\ lines = None
        /\ line_info = None
        /\ rotated = None
        /\ is_success = None
        /\ pc = "done" =>
               /\ ~Get(response).success
               /\ Get(response).rotated_image_base64 = None
               /\ Get(response).line_info = None

\* the call has ended on an undecodable upload
C8_Witness ==
    /\ pc = "done"
    /\ contents = "bad"
    /\ IsSome(response)

\* C9: every failure inside the deskew call (undecodable input, failed
\* re-encoding) reaches the caller as a raised error, never as a returned
\* value.
C9_FailuresAreRaised ==
    (pc = "done" /\ (contents \in {"empty", "bad"} \/ is_success = Some(FALSE))) =>
        /\ outcome = "raised"
        /\ response = None

\* C10: a min_line_length outside [10, 500] or a max_line_gap outside
\* [1, 100] is rejected with an error on every path that feeds the detector;
\* no path hands on a clamped or default value in its place.
C10_OutOfRangeRejected ==
    LET a == p_params.min_line_length
        b == p_params.max_line_gap
    IN (/\ p_status # "pending"
        /\ \/ (a.kind = "int" /\ (a.val < 10 \/ a.val > 500))
           \/ (b.kind = "int" /\ (b.val < 1 \/ b.val > 100))) =>
           /\ p_status = "rejected"
           /\ p_result = None


\* -------------------------------------------- combine_confidences, infer
\* C11: combine_confidences returns 0.7 * token_confidence +
\* 0.3 * heuristic_confidence when has_token_scores is true and
\* token_confidence is not None, and heuristic_confidence itself in every
\* other case.
C11_BlendOnlyWithTokenScores ==
    IsSome(comb_call) =>
        LET a == Get(comb_call)
            h == a.heuristic_confidence
        IN IF a.has_token_scores /\ a.token_confidence # None
           THEN Get(comb_ret) =
                    VRat(RAdd(RMul(Rat(7, 10), Get(a.token_confidence).q),
                              RMul(Rat(3, 10), h)))
           ELSE Get(comb_ret) = VRat(h)

\* combine(0.9, 0.3, true) = 0.72
C11_Witness ==
    /\ IsSome(comb_call)
    /\ Get(comb_call).has_token_scores
    /\ Get(comb_call).token_confidence = Some(VRat(Rat(9, 10)))
    /\ Get(comb_call).heuristic_confidence = Rat(3, 10)
    /\ Get(comb_ret) = VRat(Rat(72, 100))

\* C12: the confidence an infer reports, combined from calculate_from_logits
\* and calculate_heuristic, lies in [0.0, 1.0] for every text, image size and
\* token trace.
C12_ConfidenceInUnitInterval ==
    (IsSome(inf_ret) /\ Get(inf_ret).confidence # None) =>
        /\ VGeq(Get(Get(inf_ret).confidence), Rat(0, 1))
        /\ VLeq(Get(Get(inf_ret).confidence), Rat(1, 1))

\* a blend of a token confidence of 1.0 with the largest heuristic, 0.7
C12_Witness ==
    /\ IsSome(inf_ret)
    /\ Get(inf_ret).token_conf = Some(VRat(Rat(1, 1)))
    /\ Get(inf_ret).heuristic_conf = Some(Rat(7, 10))
    /\ Get(inf_ret).confidence = Some(VRat(Rat(91, 100)))

\* C16: when an infer asked for a confidence cannot score the tokens (the
\* per-step scores are None or empty, or the scoring raised inside), infer
\* does not raise and the confidence it reports is the heuristic confidence
\* itself, not a blend with the neutral 0.5.
C16_HeuristicOnlyWithoutTokenScores ==
    (/\ IsSome(inf_ret)
     /\ ~Get(inf_ret).raised
     /\ Get(inf_ret).return_confidence
     /\ Get(inf_ret).model \in {"deepseek", "glm"}
     /\ \/ Get(inf_ret).scores = None
        \/ Len(Get(Get(inf_ret).scores)) = 0
        \/ Get(inf_ret).scoring_raised)
        => Get(inf_ret).confidence =
               Some(VRat(Get(Get(inf_ret).heuristic_conf)))

\* ----------------------------------------------- calculate_from_logits
TokIds == Get(tok_call).generated_ids
TokScores == Get(tok_call).scores
TokPrompt == Get(tok_call).input_length
TokList == Get(tok_ret).token_confidences
TokAvg == Get(tok_ret).avg

\* the probability of the i-th token after the prompt at step i, floored
TokExpected(i) ==
    LET p == Get(TokScores)[i][TokIds[TokPrompt + i] + 1]
    IN IF RLt(p, Rat(1, 100)) THEN Rat(1, 100) ELSE p

\* C13: calculate_from_logits returns exactly 0.5 and an empty per-token
\* list when scores is None, when scores is empty, and when generated_ids
\* has no token at an index >= input_length.
C13_NeutralDefaultWithoutTokens ==
    (/\ IsSome(tok_call)
     /\ \/ TokScores = None
        \/ Len(Get(TokScores)) = 0
        \/ Len(TokIds) <= TokPrompt)
        => /\ TokAvg = VRat(Rat(1, 2))
           /\ TokList = <<>>

\* probability steps are there, but every id belongs to the prompt
C13_Witness ==
    /\ IsSome(tok_call)
    /\ TokScores # None
    /\ Len(Get(TokScores)) > 0
    /\ Len(TokIds) > 0
    /\ Len(TokIds) <= TokPrompt
    /\ TokAvg = VRat(Rat(1, 2))

\* C14 as stated: when the returned per-token list is not empty, the
\* returned confidence is the geometric mean of the per-token probabilities
\* floored at 0.01, and so lies in [0.01, 1.0], between the smallest and the
\* largest floored probability, and is not 0.
C14_Original ==
    (IsSome(tok_call) /\ TokList # <<>>) =>
        LET n == Len(TokList)
            ps == [i \in 1..n |-> TokExpected(i)]
        IN /\ [TokAvg EXCEPT !.err = 0] = VRoot(n, Product(ps))
           /\ VGeq(TokAvg, Rat(1, 100)) /\ VLeq(TokAvg, Rat(1, 1))
           /\ \E i \in 1..n : VGeq(TokAvg, ps[i])
           /\ \E i \in 1..n : VLeq(TokAvg, ps[i])
           /\ ~VLeq(TokAvg, Rat(0, 1))

\* C14, amended: when the returned per-token list is not empty, the returned
\* confidence is the float evaluation of the geometric mean of the per-token
\* probabilities floored at 0.01: the real number it rounds (whose n-th power
\* is their product) lies in [0.01, 1.0] and between the smallest and the
\* largest floored probability, and the float itself is above 0 and at most
\* 1.0, but it can fall just outside the two probabilities and just below
\* 0.01.
C14_GeometricMeanUpToRounding ==
    (IsSome(tok_call) /\ TokList # <<>>) =>
        LET n == Len(TokList)
            ps == [i \in 1..n |-> TokExpected(i)]
        IN /\ [TokAvg EXCEPT !.err = 0] = VRoot(n, Product(ps))
           /\ StdGeq(TokAvg, Rat(1, 100)) /\ StdLeq(TokAvg, Rat(1, 1))
           /\ \E i \in 1..n : StdGeq(TokAvg, ps[i])
           /\ \E i \in 1..n : StdLeq(TokAvg, ps[i])
           /\ VLeq(TokAvg, Rat(1, 1))
           /\ ~VLeq(TokAvg, Rat(0, 1))

\* two tokens, both floored at 0.01, the mean rounded downwards: the float
\* is below 0.01 although the geometric mean is 0.01
C14_Witness ==
    /\ IsSome(tok_call)
    /\ Len(TokList) = 2
    /\ TokList[1] = Rat(1, 100) /\ TokList[2] = Rat(1, 100)
    /\ Get(TokScores)[1][TokIds[TokPrompt + 1] + 1] = Rat(0, 1)
    /\ StdGeq(TokAvg, Rat(1, 100))
    /\ ~VGeq(TokAvg, Rat(1, 100))

HeurText == Get(heur_call).text
HeurTrimmed == Strip(HeurText)
HeurSteps == Get(heur_ret).steps
HeurScored == IsSome(heur_call) /\ HeurSteps # <<>>

\* C17: calculate_heuristic returns exactly 0.1 for a text that is empty or
\* made of whitespace only, whatever the image size, and none of the
\* penalties is applied to it (the local confidence is never computed).
C17_BlankTextGivesOneTenth ==
    (IsSome(heur_call) /\ \A i \in 1..Len(HeurText) : IsSpace(HeurText[i].ch))
        => /\ Get(heur_ret).value = Rat(1, 10)
           /\ HeurSteps = <<>>

\* a whitespace-only text on an image small enough for the area penalty
C17_Witness ==
    /\ IsSome(heur_call)
    /\ HeurText # <<>>
    /\ \A i \in 1..Len(HeurText) : IsSpace(HeurText[i].ch)
    /\ Get(heur_call).image_size[1] * Get(heur_call).image_size[2] < SmallArea
    /\ Get(heur_ret).value = Rat(1, 10)

\* C18: the length step multiplies the confidence by 0.7 exactly when the
\* trimmed text has fewer than 10 characters, by 0.9 exactly when it has more
\* than 5000, and leaves it alone otherwise (10 and 5000 included); outer
\* whitespace is not counted.
C18_LengthMultiplier ==
    HeurScored =>
        HeurSteps[2] =
            RMul(HeurSteps[1],
                 IF TextLen(HeurTrimmed) < 10 THEN Rat(7, 10)
                 ELSE IF TextLen(HeurTrimmed) > 5000 THEN Rat(9, 10)
                 ELSE Rat(1, 1))

\* a text of exactly 10 characters between outer whitespace: no penalty
C18_Witness ==
    /\ HeurScored
    /\ IsSpace(HeurText[1].ch)
    /\ TextLen(HeurTrimmed) = 10
    /\ TextLen(HeurText) > 10
    /\ HeurSteps[2] = HeurSteps[1]

\* C19: the repetition step multiplies the confidence by 0.6 exactly when
\* the trimmed text holds a run of 5 or more copies of one character, whatever
\* the character (a line feed included), and never for runs of 4 or less.
C19_RepetitionPenaltyAnyCharacter ==
    HeurScored =>
        HeurSteps[3] =
            RMul(HeurSteps[2],
                 IF \E i \in 1..Len(HeurTrimmed) : HeurTrimmed[i].n >= 5
                 THEN Rat(6, 10)
                 ELSE Rat(1, 1))

\* C20: the quality step multiplies the confidence by
\* 0.5 + 0.5 * (alphanumeric-or-whitespace characters / characters of the
\* trimmed text): 1.0 when every character counts, 0.5 when none does, and
\* within [0.5, 1.0] always.
C20_QualityMultiplier ==
    HeurScored =>
        LET total == TextLen(HeurTrimmed)
            good == TextLen(SelectSeq(HeurTrimmed, LAMBDA r : r.ch # "symbol"))
            m == Rat(total + good, 2 * total)
        IN /\ HeurSteps[4] = RMul(HeurSteps[3], m)
           /\ RLeq(Rat(1, 2), m) /\ RLeq(m, Rat(1, 1))
           /\ (good = total => HeurSteps[4] = HeurSteps[3])
           /\ (good = 0 => HeurSteps[4] = RMul(HeurSteps[3], Rat(1, 2)))

\* a text with a space inside and a punctuation mark: the ratio is strictly
\* between 0 and 1
C20_Witness ==
    /\ HeurScored
    /\ \E i \in 1..Len(HeurTrimmed) : HeurTrimmed[i].ch = "space"
    /\ \E i \in 1..Len(HeurTrimmed) : HeurTrimmed[i].ch = "symbol"
    /\ HeurSteps[4] # HeurSteps[3]
    /\ HeurSteps[4] # RMul(HeurSteps[3], Rat(1, 2))

\* C21: the area step multiplies the confidence by 0.85 exactly when
\* width * height < 50000; an image of area exactly 50000 is not penalised.
C21_SmallImagePenalty ==
    HeurScored =>
        LET size == Get(heur_call).image_size
        IN HeurSteps[5] =
               RMul(HeurSteps[4],
                    IF size[1] * size[2] < 50000 THEN Rat(85, 100)
                    ELSE Rat(1, 1))

\* an image of 250 x 200 = 50000 pixels: the confidence is left alone
C21_Witness ==
    /\ HeurScored
    /\ Get(heur_call).image_size[1] * Get(heur_call).image_size[2] = 50000
    /\ HeurSteps[5] = HeurSteps[4]

\* the float calculate_heuristic returned
HeurValue == [VRat(Get(heur_ret).value) EXCEPT !.err = Get(heur_ret).err]

\* C23 as stated: for a text that is not blank, calculate_heuristic returns
\* a value in [0.12495, 0.7], which the final clamp leaves alone and which
\* is above the 0.1 of a blank text.
C23_Original ==
    HeurScored =>
        /\ VGeq(HeurValue, Rat(12495, 100000))
        /\ VLeq(HeurValue, Rat(7, 10))
        /\ Get(heur_ret).value = HeurSteps[5]
        /\ ~VLeq(HeurValue, Rat(1, 10))

\* C23, amended: for a text that is not blank, the real product
\* calculate_heuristic evaluates lies in [0.12495, 0.7]
\* (0.7 x 0.7 x 0.6 x 0.5 x 0.85 at worst); the float returned is at most 0.7
\* and above the 0.1 of a blank text, and the final clamp leaves it alone,
\* but rounding can put it just below 0.12495.
C23_HeuristicRange ==
    HeurScored =>
        /\ RLeq(Rat(12495, 100000), Get(heur_ret).value)
        /\ RLeq(Get(heur_ret).value, Rat(7, 10))
        /\ VLeq(HeurValue, Rat(7, 10))
        /\ Get(heur_ret).value = HeurSteps[5]
        /\ ~VLeq(HeurValue, Rat(1, 10))

\* the worst case: a short run of 5 punctuation marks on a small image, the
\* product rounded downwards
C23_Witness ==
    /\ HeurScored
    /\ HeurText = <<[ch |-> "symbol", n |-> 5]>>
    /\ Get(heur_call).image_size[1] * Get(heur_call).image_size[2] < 50000
    /\ Get(heur_ret).value = Rat(12495, 100000)
    /\ Get(heur_ret).err = -1

\* ------------------------------------------------ claims: classification
\* |y2 - y1| / |x2 - x1| < tan(T), for a segment that is not vertical
SlopeBelow(seg, tanNum) ==
    /\ seg[3] # seg[1]
    /\ Abs(seg[4] - seg[2]) * TanDen < tanNum * Abs(seg[3] - seg[1])

\* the segment is one end point repeated: arctan2(0, 0) is 0
IsPoint(seg) == seg[1] = seg[3] /\ seg[2] = seg[4]

\* the indices of the detected lines that were appended to horizontal_lines
ClassifiedHorizontal ==
    {i \in 1..Len(Get(lines)) :
        \E k \in 1..Len(horizontal_lines) :
            horizontal_lines[k].coords = Get(lines)[i]}

\* C22: on /rotate a segment is classified horizontal exactly when the
\* absolute value of its normalized angle is strictly below 20 degrees; the
\* angles in [15, 20) are horizontal, those of 20 and more are not.
C22_HorizontalBelow20 ==
    Selected =>
        LET segs == Get(lines)
        IN /\ \A i \in 1..Len(segs) :
                 i \in ClassifiedHorizontal
                     <=> (IsPoint(segs[i]) \/ SlopeBelow(segs[i], Tan20Num))
           /\ \A k \in 1..Len(horizontal_lines) :
                 /\ horizontal_lines[k].angle.dx > 0
                 /\ Abs(horizontal_lines[k].angle.dy) * TanDen
                        < Tan20Num * horizontal_lines[k].angle.dx
           /\ Len(horizontal_lines)
                  = Cardinality({i \in 1..Len(segs) :
                                    IsPoint(segs[i]) \/ SlopeBelow(segs[i], Tan20Num)})

\* a segment tilted by 15 degrees or more and less than 20 was classified
\* horizontal, a steeper one was not
C22_Witness ==
    /\ Selected
    /\ Len(Get(lines)) = 2
    /\ Len(horizontal_lines) = 1
    /\ ~SlopeBelow(horizontal_lines[1].coords, Tan15Num)
    /\ SlopeBelow(horizontal_lines[1].coords, Tan20Num)
    /\ \E i \in 1..2 : Get(lines)[i][3] # Get(lines)[i][1]
                          /\ i \notin ClassifiedHorizontal

\* ------------------------------------------------- claims: endpoint order
\* the segment with its end points exchanged
Reverse(seg) == <<seg[3], seg[4], seg[1], seg[2]>>

ReverseAll(segs) == [i \in 1..Len(segs) |-> Reverse(segs[i])]

\* C24 as stated: the normalized angle of a segment with two distinct end
\* points is the angle of the segment with the end points exchanged.
C24_Original ==
    \A i \in 1..Len(all_lines_debug) :
        LET c == all_lines_debug[i].coords
        IN ~IsPoint(c) => SegmentAngle(Reverse(c)) = all_lines_debug[i].corrected_angle

\* C24, amended: the normalized angle of a segment that is not vertical
\* does not depend on the order of its end points, and neither does the
\* rotation derived from a selected line that is not vertical; a vertical
\* segment has the angle -90 in one order and 90 in the other, and the
\* rotation derived from it changes sign with the order.
C24_AngleUpToVerticalOrder ==
    /\ \A i \in 1..Len(all_lines_debug) :
          LET c == all_lines_debug[i].coords
              a == all_lines_debug[i].corrected_angle
          IN /\ c[1] # c[3] => SegmentAngle(Reverse(c)) = a
             /\ (c[1] = c[3] /\ c[2] # c[4]) =>
                    /\ a.dx = 0
                    /\ a.dy # 0
                    /\ SegmentAngle(Reverse(c)) = Neg(a)
    /\ (Selected /\ Len(Get(lines)) > 0) =>
          LET rsegs == ReverseAll(Get(lines))
              rsel == SelectLine(rsegs, HorizontalLines(rsegs))
              li == Get(line_info)
          IN /\ Get(rsel.line_info).start = li.end
             /\ Get(rsel.line_info).end = li.start
             /\ rsel.rotation_angle
                    = IF li.start[1] = li.end[1] /\ li.start[2] # li.end[2]
                      THEN Neg(rotation_angle)
                      ELSE rotation_angle

\* the line chosen is vertical: the image is turned by a quarter turn, one
\* way or the other with the order of the end points
C24_Witness ==
    /\ Selected
    /\ Len(Get(lines)) = 2
    /\ IsSome(line_info)
    /\ Get(line_info).start[1] = Get(line_info).end[1]
    /\ rotation_angle = [dy |-> 1, dx |-> 0]
    /\ Get(lines)[1][4] > Get(lines)[1][2]
    /\ Get(lines)[2][4] < Get(lines)[2][2]
    /\ Get(lines)[2][3] = Get(lines)[2][1]

\* ------------------------------------------------ claims: the second test
\* C25: the angle being normalized before the classification, the second
\* test abs(abs(angle) - 180) < 20 is true of no segment, and a segment is
\* appended to horizontal_lines exactly when abs(angle) < 20.
C25_SecondTestNeverTrue ==
    Selected =>
        /\ \A i \in 1..Len(all_lines_debug) :
              LET a == all_lines_debug[i].corrected_angle
              IN /\ ~(a.dx < 0 /\ Abs(a.dy) * TanDen < Tan20Num * (-a.dx))
                 /\ i \in ClassifiedHorizontal
                        <=> (a.dx > 0 /\ Abs(a.dy) * TanDen < Tan20Num * a.dx)

\* a segment reported right to left and tilted by less than 20 degrees, whose
\* raw angle is within 20 degrees of 180 or -180, was classified horizontal
\* by the first test
C25_Witness ==
    /\ Selected
    /\ Len(horizontal_lines) > 0
    /\ \E k \in 1..Len(horizontal_lines) :
          LET c == horizontal_lines[k].coords
          IN /\ c[3] < c[1]
             /\ c[4] > c[2]
             /\ SlopeBelow(c, Tan20Num)
             /\ horizontal_lines[k].angle.dx > 0

\* ---------------------------------------------------- claims: the utility
\* find_longest_horizontal_line returned for a detection that is not empty
UtilReturned ==
    /\ IsSome(util_ret)
    /\ Get(util_ret).outcome = "returned"
    /\ IsSome(Get(util_call).lines)
    /\ Len(Get(Get(util_call).lines)) > 0

UtilLines == Get(Get(util_call).lines)

\* every segment is tilted by less than 15 degrees or by 20 or more, and one
\* at least by less than 15
ThresholdsAgree(segs) ==
    /\ \A i \in 1..Len(segs) :
          \/ IsPoint(segs[i])
          \/ SlopeBelow(segs[i], Tan15Num)
          \/ ~SlopeBelow(segs[i], Tan20Num)
    /\ \E i \in 1..Len(segs) : IsPoint(segs[i]) \/ SlopeBelow(segs[i], Tan15Num)

\* what /rotate selects for the same detection
RotateSelection(segs) == Get(SelectLine(segs, HorizontalLines(segs)).line_info)

\* C26: for a detection in which every segment is tilted by less than 15
\* degrees or by 20 degrees or more, and one at least by less than 15,
\* find_longest_horizontal_line and /rotate choose the same segment and
\* report the same signed angle for it.
C26_UtilityDuplicatesRotate ==
    (UtilReturned /\ ThresholdsAgree(UtilLines)) =>
        /\ IsSome(Get(util_ret).value)
        /\ Get(Get(util_ret).value).start = RotateSelection(UtilLines).start
        /\ Get(Get(util_ret).value).end = RotateSelection(UtilLines).end
        /\ Get(Get(util_ret).value).angle = RotateSelection(UtilLines).detected_angle

\* the part of C26 that the code has: the same segment is chosen, and the
\* angle reported is that of /rotate with the sign changed
C26_SameSegmentOppositeAngle ==
    (UtilReturned /\ ThresholdsAgree(UtilLines)) =>
        /\ IsSome(Get(util_ret).value)
        /\ Get(Get(util_ret).value).start = RotateSelection(UtilLines).start
        /\ Get(Get(util_ret).value).end = RotateSelection(UtilLines).end
        /\ Get(Get(util_ret).value).length = RotateSelection(UtilLines).length
        /\ Get(Get(util_ret).value).angle = Neg(RotateSelection(UtilLines).detected_angle)

\* ------------------------------------------------ claims: SessionManager
\* the key is present and its value is not None
Holds(key) == key # Absent /\ Get(key) # None

\* C29: after any sequence of set_shared_file and clear_shared_file calls,
\* failed set_shared_file calls included, the session holds a shared file if
\* and only if it holds last_uploaded_file, last_uploaded_file is the name
\* of the stored file, and a call that failed left the session unchanged.
C29_SharedFileMatchesLastUploaded ==
    /\ Holds(session_state.shared_file) <=> Holds(session_state.last_uploaded_file)
    /\ Holds(session_state.shared_file) =>
           Get(Get(session_state.shared_file)).name
               = Get(session_state.last_uploaded_file)
    /\ (sess_call # None /\ Get(sess_call).raised) =>
           session_state = Get(sess_call).before

\* what the code has: the invariant holds as long as no set_shared_file
\* failed since the last clear_shared_file
C29_HoldsAfterSuccessfulCalls ==
    (sess_call # None /\ ~Get(sess_call).raised
        /\ Get(sess_call).op # "initialize_session") =>
        /\ Holds(session_state.shared_file) <=> Holds(session_state.last_uploaded_file)
        /\ Holds(session_state.shared_file) =>
               Get(Get(session_state.shared_file)).name
                   = Get(session_state.last_uploaded_file)

\* ---------------------------------------------------- claims: OCR server
\* the request ended
OcrDone == ocr_pc = "done" /\ IsSome(ocr_req) /\ IsSome(ocr_resp)

\* the request is for a PDF that was converted to at least one page
PdfWithPages ==
    /\ IsSome(ocr_req)
    /\ Get(ocr_req).model_name \in ValidModels
    /\ Get(ocr_req).upload.kind = "pdf"
    /\ Get(ocr_req).upload.opens
    /\ Len(Get(ocr_req).upload.pages) >= 1

\* C27: in /ocr for a PDF with N >= 1 rendered pages every page is processed
\* in order, whatever was raised on earlier pages: the response has N
\* entries in pages and N in confidence_per_page, a failed page counts 0.1,
\* a page without confidence 0.5, and the document's confidence is the
\* minimum of confidence_per_page.
C27_EveryPageProcessed ==
    (OcrDone /\ PdfWithPages) =>
        LET rendered == Get(ocr_req).upload.pages
            N == Len(rendered)
            resp == Get(ocr_resp)
        IN /\ resp.status_code = 200
           /\ resp.body # None
           /\ LET body == Get(resp.body)
                  per_page == body.confidence_per_page
              IN /\ Len(body.pages) = N
                 /\ Len(per_page) = N
                 /\ body.total_pages = N
                 /\ \A i \in 1..N :
                       /\ body.pages[i].page_number = rendered[i]
                       /\ body.pages[i].error # None => per_page[i] = Rat(1, 10)
                       /\ (body.pages[i].error = None
                              /\ body.pages[i].confidence = None) =>
                             per_page[i] = Rat(1, 2)
                       /\ body.pages[i].confidence # None =>
                             per_page[i] = Get(body.pages[i].confidence)
                 /\ body.confidence # None
                 /\ \A i \in 1..N : RLeq(Get(body.confidence), per_page[i])
                 /\ \E i \in 1..N : Get(body.confidence) = per_page[i]

\* a document of two pages: the first page failed, the second has no
\* confidence, and the document's confidence is the 0.1 of the failed page
C27_Witness ==
    /\ OcrDone
    /\ PdfWithPages
    /\ Get(ocr_resp).body # None
    /\ Len(Get(Get(ocr_resp).body).pages) = 2
    /\ Get(Get(ocr_resp).body).pages[1].error # None
    /\ Get(Get(ocr_resp).body).pages[2].error = None
    /\ Get(Get(ocr_resp).body).confidence_per_page = <<Rat(1, 10), Rat(1, 2)>>
    /\ Get(Get(ocr_resp).body).confidence = Some(Rat(1, 10))

\* the failures that are errors of the client's input
InputErrors ==
    {"invalid_model", "read_error", "unsupported_format", "pdf_unreadable",
     "pdf_no_pages", "image_unreadable"}

\* C28: in /ocr every input error detected during the processing (a PDF
\* that cannot be converted, a PDF without pages, an image that cannot be
\* opened) is answered with status 400, and status 500 only answers
\* failures that are not input errors.
C28_InputErrorsAnswered400 ==
    OcrDone =>
        /\ Get(ocr_resp).cause \in InputErrors => Get(ocr_resp).status_code = 400
        /\ Get(ocr_resp).status_code = 500 => Get(ocr_resp).cause \notin InputErrors

\* C30: after any sequence of /ocr requests the registry holds valid model
\* names only, a registered model was constructed exactly once and a model
\* that is not registered never, a request with an invalid model name adds
\* nothing, a request adds no name but its own, and a model whose
\* construction raised is not registered.
C30_RegistryLoadsOnce ==
    /\ models \subseteq ValidModels
    /\ \A n \in ValidModels : constructed[n] = IF n \in models THEN 1 ELSE 0
    /\ IsSome(ocr_req) =>
          LET req == Get(ocr_req)
          IN /\ req.loaded_before \subseteq models
             /\ models \subseteq req.loaded_before \cup {req.model_name}
             /\ req.model_name \notin ValidModels => models = req.loaded_before
             /\ (IsSome(ocr_run) /\ Get(ocr_run).results # <<>>
                    /\ Get(ocr_run).results[Len(Get(ocr_run).results)].error
                           = Some("RuntimeError")) =>
                   req.model_name \notin models
             /\ (OcrDone /\ Get(ocr_resp).cause = "RuntimeError") =>
                   req.model_name \notin models

\* the construction raised on the first page and was attempted again, with
\* success, on the second: the model is registered, constructed once
C30_Witness ==
    /\ IsSome(ocr_req)
    /\ IsSome(ocr_run)
    /\ Len(Get(ocr_run).results) = 2
    /\ Get(ocr_run).results[1].error = Some("RuntimeError")
    /\ Get(ocr_run).results[2].error = None
    /\ Get(ocr_req).model_name \in models
    /\ Get(ocr_req).model_name \notin Get(ocr_req).loaded_before
    /\ Get(ocr_req).loaded_before # {}
    /\ constructed[Get(ocr_req).model_name] = 1
====
